---------------------------- MODULE Spec2Model ----------------------------
(***************************************************************************)
(* A model of the fpresize library (jsummers/fpresize): the FPObject       *)
(* orchestrator (fpresize.go), the source ingester (fpconvert1.go), the    *)
(* resampler and its worker pool (fpresize.go), and the exporter           *)
(* (fpconvert2.go).                                                        *)
(*                                                                         *)
(* Numbers.  A float32 sample is a fixed-point integer: the sample 1.0 is  *)
(* FPOne, so an 8-bit value b is exactly b * (FPOne / 255).  A product or  *)
(* quotient is rounded to the nearest unit, once, where the code rounds.   *)
(* A float64 coordinate (dstOffsetX, dstTrueW, ...) is a whole number of   *)
(* 1/CoordDen.  A filter weight is an exact fraction <<num, den>>.         *)
(***************************************************************************)
EXTENDS Integers, Sequences, FiniteSets, TLC

\* ---------------------------------------------------------------- bounds
\* Largest GOMAXPROCS, and largest SetMaxWorkerThreads argument, explored.
MaxProcs == 2
\* Largest number of Resize* calls made on one FPObject.
MaxCalls == 2
\* Largest number of counted setter calls made on one FPObject.
MaxSetters == 2

\* ------------------------------------------------------ program constants
maxImagePixels == 536870911
VirtualPixelsNone == 0
VirtualPixelsTransparent == 1
CCFFlagNoCache == 1
CCFFlagWholePixels == 2
ResizeFlagGrayOK == 1
ResizeFlagUnassocAlpha == 2
ResizeFlag16Bit == 4
FilterFlagAsymmetric == 1
\* The size of both output lookup tables.
outputLUT_Size == 9885

\* ------------------------------------------------------- number modelling
\* The fixed-point value of the float32 sample 1.0.
FPOne == 1020
\* Denominator of the float64 coordinates.
CoordDen == 2
\* 1/0.0001, the tolerance createWeightList adds to the filter's support.
EpsDen == 10000

\* Floor and ceiling of a/b, and a/b rounded to nearest (half up), for b > 0.
FloorDiv(a, b) == a \div b
CeilDiv(a, b) == -((-a) \div b)
RoundDiv(a, b) == (2 * a + b) \div (2 * b)
Abs(x) == IF x < 0 THEN -x ELSE x
Min2(a, b) == IF a < b THEN a ELSE b

\* Clamp to [0,1]: "if x < 0.0 { x = 0.0 } else if x > 1.0 { x = 1.0 }".
Clamp01(x) == IF x < 0 THEN 0 ELSE IF x > FPOne THEN FPOne ELSE x

\* uint8(x*255.0 + 0.5) and uint16(x*65535.0 + 0.5) for 0 <= x <= 1.
ToUint8(x) == (x * 255 + FPOne \div 2) \div FPOne
ToUint16(x) == (x * 65535 + FPOne \div 2) \div FPOne
\* float32(b) / 256.0 for a byte b.
FromUint8_By256(b) == (b * FPOne) \div 256
\* float32(b) / 255.0 for a byte b.
FromUint8(b) == b * (FPOne \div 255)

\* ------------------------------------------------------------- filters
\* A filter is named by a string.  The argument of F is the fraction an/ad
\* (ad > 0); the value is FilterNum/FilterDen, and FilterDen depends on ad
\* alone, so the values computed for one destination sample share a
\* denominator.
\*   "triangle"    MakeTriangleFilter: 1 - x for x < 1, 0 from there on
\*   "hermite"     MakeCubicFilter(0, 0): (12x^3 - 18x^2 + 6)/6 for x < 1
\*   "catmullrom"  MakeCubicFilter(0, 0.5): (9x^3 - 15x^2 + 6)/6 for x < 1,
\*                 (-3x^3 + 15x^2 - 24x + 12)/6 for x < 2
\*   "ramp"        a filter of the caller's, not even: 1 - x for -1 < x < 1,
\*                 with Flags returning FilterFlagAsymmetric
\*   "box"         a filter of the caller's: 1 wherever it is called, with
\*                 Radius returning 1
FilterNum(filter, an, ad) ==
  CASE filter = "triangle" -> IF an < ad THEN ad - an ELSE 0
    [] filter = "hermite" ->
         IF an < ad THEN 12 * an * an * an - 18 * an * an * ad + 6 * ad * ad * ad ELSE 0
    [] filter = "catmullrom" ->
         IF an < ad THEN 9 * an * an * an - 15 * an * an * ad + 6 * ad * ad * ad
         ELSE IF an < 2 * ad
              THEN -3 * an * an * an + 15 * an * an * ad - 24 * an * ad * ad
                     + 12 * ad * ad * ad
              ELSE 0
    [] filter = "ramp" -> IF an > -ad /\ an < ad THEN ad - an ELSE 0
    [] filter = "box" -> ad
FilterDen(filter, ad) ==
  CASE filter \in {"triangle", "ramp", "box"} -> ad
    [] filter \in {"hermite", "catmullrom"} -> 6 * ad * ad * ad
\* filter.Radius(scaleFactor), a whole number for the filters modelled.
FilterRadius(filter) ==
  CASE filter \in {"triangle", "hermite", "ramp", "box"} -> 1
    [] filter = "catmullrom" -> 2
\* filter.Flags(scaleFactor); 0 when filter.Flags is nil.
FilterFlags(filter) ==
  CASE filter \in {"triangle", "hermite", "catmullrom", "box"} -> 0
    [] filter = "ramp" -> FilterFlagAsymmetric

\* The argument handed to filter.F with the sign of arg kept whatever the
\* filter's flags are.
filterArg_Signed(filterFlags, arg) == arg
\* "if (arg < 0.0) && (filterFlags&FilterFlagAsymmetric == 0) { arg = -arg }":
\* the argument handed to filter.F for the computed arg (a numerator).
filterArg(filterFlags, arg) ==
  IF arg < 0 /\ (filterFlags \div FilterFlagAsymmetric) % 2 = 0 THEN -arg ELSE arg

\* ---------------------------------------------------------- weight list
\* Concatenation of the sequences f[lo], ..., f[hi], in that order.
RECURSIVE ConcatRange(_, _, _)
ConcatRange(f, lo, hi) ==
  IF lo > hi THEN << >>
  ELSE IF lo = hi THEN f[lo]
  ELSE ConcatRange(f, lo, (lo + hi) \div 2) \o ConcatRange(f, (lo + hi) \div 2 + 1, hi)

RECURSIVE SumNum(_)
SumNum(ws) == IF ws = << >> THEN 0 ELSE Head(ws).num + SumNum(Tail(ws))

\* The allocation without the 1.01 entries per destination sample:
\* int(1.0 + 2.0*radius*reductionFactor*float64(dstCanvasN)).
weightListCap_NoSlack(Rn, posDen, dstCanvasN) ==
  FloorDiv(posDen + 2 * Rn * dstCanvasN, posDen)
\* "weightListCap := int(1.0 + (1.01+2.0*radius*reductionFactor)*float64(dstCanvasN))",
\* with radius*reductionFactor = Rn / posDen.
weightListCap(Rn, posDen, dstCanvasN) ==
  FloorDiv(100 * posDen + (101 * posDen + 200 * Rn) * dstCanvasN, 100 * posDen)

\* The calls of filter.F that createWeightList makes for one dimension, per
\* destination sample d (element d + 1), in the order of the inner loop.
\* srcN, dstCanvasN: sample counts; dstTrueN, dstOffset, blur: numerators
\* over CoordDen.  A call is [srcSamIdx, dstSamIdx, isVirtual, signed, arg,
\* den, num]: the computed arg is signed/den, the one handed to F is arg/den,
\* and num is the numerator of the value v that F returned.  window holds
\* firstSrcSamIdx and lastSrcSamIdx, and cap is weightListCap.
FilterCallsFor(srcN, dstCanvasN, dstTrueN, dstOffset, blur, filter, virtualPixels) ==
  LET \* posInSrc = P(d) / posDen
      posDen == 2 * dstTrueN
      P(d) == (CoordDen * (2 * d + 1) - 2 * dstOffset) * srcN - dstTrueN
      \* radius*reductionFactor = Rn / posDen, reductionFactor = Fn / posDen
      Fn == IF dstTrueN < CoordDen * srcN
            THEN 2 * srcN * blur
            ELSE (2 * dstTrueN * blur) \div CoordDen
      Rn == FilterRadius(filter) * Fn
      firstSrcSamIdx(d) == CeilDiv((P(d) - Rn) * EpsDen - posDen, posDen * EpsDen)
      lastSrcSamIdx(d) == FloorDiv((P(d) + Rn) * EpsDen + posDen, posDen * EpsDen)
      isVirtual(s) == ~(s >= 0 /\ s < srcN)
      \* arg = (srcSamIdx - posInSrc) / reductionFactor = signed / Fn
      CallOf(d, s, a) ==
        [srcSamIdx |-> s, dstSamIdx |-> d, isVirtual |-> isVirtual(s),
         signed |-> s * posDen - P(d), arg |-> a, den |-> Fn,
         num |-> FilterNum(filter, a, Fn)]
      Called(d, s) ==
        IF isVirtual(s) /\ virtualPixels = VirtualPixelsNone THEN << >>
        ELSE << CallOf(d, s, filterArg(FilterFlags(filter), s * posDen - P(d))) >>
      CallsAt(d, lo, hi) ==
        [window |-> << lo, hi >>,
         calls |-> ConcatRange([s \in lo..hi |-> Called(d, s)], lo, hi)]
  IN  [calls |-> [d \in 1..dstCanvasN |->
                    CallsAt(d - 1, firstSrcSamIdx(d - 1), lastSrcSamIdx(d - 1))],
       cap |-> weightListCap(Rn, posDen, dstCanvasN),
       den |-> FilterDen(filter, Fn)]

\* createWeightList for one dimension: the list of [srcSamIdx, dstSamIdx,
\* weight], weight = <<num, den>>, made of the calls of filter.F.
WeightListFor(srcN, dstCanvasN, dstTrueN, dstOffset, blur, filter, virtualPixels) ==
  LET Entry(c) ==
        IF c.num = 0 THEN << >>
        ELSE IF c.isVirtual
             THEN << [srcSamIdx |-> -1, dstSamIdx |-> -1, num |-> c.num] >>
             ELSE << [srcSamIdx |-> c.srcSamIdx, dstSamIdx |-> c.dstSamIdx, num |-> c.num] >>
      Raw(cs) == ConcatRange([k \in 1..Len(cs) |-> Entry(cs[k])], 1, Len(cs))
      \* weight /= v_norm, with v_norm = 0.000001 when |v_norm| < 0.000001
      Divided(raw, vsum, vden) ==
        LET tiny == Abs(vsum) < CeilDiv(vden, 1000000)
        IN  [i \in 1..Len(raw) |->
               [srcSamIdx |-> raw[i].srcSamIdx, dstSamIdx |-> raw[i].dstSamIdx,
                weight |-> IF tiny THEN << raw[i].num * 1000000, vden >>
                           ELSE << raw[i].num, vsum >>]]
      Summed(raw, vden) == Divided(raw, SumNum(raw), vden)
      Made(t) ==
        ConcatRange([d \in 1..dstCanvasN |-> Summed(Raw(t.calls[d].calls), t.den)],
                    1, dstCanvasN)
  IN  Made(FilterCallsFor(srcN, dstCanvasN, dstTrueN, dstOffset, blur, filter,
                          virtualPixels))

\* ------------------------------------------------------ colour converters
\* The two converters of the package, tabulated on the fixed-point grid:
\* entry x + 1 is the converter's float32 result for the sample x / FPOne,
\* rounded to the nearest unit.
SRGBToLinearTable ==
  <<
    0, 0, 0, 0, 0, 0, 0, 1, 1, 1, 1, 1, 1, 1, 1, 1, 1, 1, 1, 1,
    2, 2, 2, 2, 2, 2, 2, 2, 2, 2, 2, 2, 2, 3, 3, 3, 3, 3, 3, 3,
    3, 3, 3, 3, 3, 3, 4, 4, 4, 4, 4, 4, 4, 4, 4, 4, 4, 5, 5, 5,
    5, 5, 5, 5, 5, 5, 5, 6, 6, 6, 6, 6, 6, 6, 6, 7, 7, 7, 7, 7,
    7, 7, 7, 8, 8, 8, 8, 8, 8, 8, 8, 9, 9, 9, 9, 9, 9, 9, 10, 10,
    10, 10, 10, 10, 11, 11, 11, 11, 11, 11, 12, 12, 12, 12, 12, 12, 13, 13, 13, 13,
    13, 13, 14, 14, 14, 14, 14, 15, 15, 15, 15, 15, 16, 16, 16, 16, 16, 17, 17, 17,
    17, 17, 18, 18, 18, 18, 18, 19, 19, 19, 19, 20, 20, 20, 20, 20, 21, 21, 21, 21,
    22, 22, 22, 22, 23, 23, 23, 23, 24, 24, 24, 24, 25, 25, 25, 25, 26, 26, 26, 26,
    27, 27, 27, 28, 28, 28, 28, 29, 29, 29, 30, 30, 30, 30, 31, 31, 31, 32, 32, 32,
    33, 33, 33, 33, 34, 34, 34, 35, 35, 35, 36, 36, 36, 37, 37, 37, 38, 38, 38, 39,
    39, 39, 40, 40, 40, 41, 41, 41, 42, 42, 42, 43, 43, 44, 44, 44, 45, 45, 45, 46,
    46, 46, 47, 47, 48, 48, 48, 49, 49, 50, 50, 50, 51, 51, 51, 52, 52, 53, 53, 54,
    54, 54, 55, 55, 56, 56, 56, 57, 57, 58, 58, 59, 59, 59, 60, 60, 61, 61, 62, 62,
    62, 63, 63, 64, 64, 65, 65, 66, 66, 67, 67, 67, 68, 68, 69, 69, 70, 70, 71, 71,
    72, 72, 73, 73, 74, 74, 75, 75, 76, 76, 77, 77, 78, 78, 79, 79, 80, 80, 81, 81,
    82, 82, 83, 83, 84, 84, 85, 86, 86, 87, 87, 88, 88, 89, 89, 90, 90, 91, 92, 92,
    93, 93, 94, 94, 95, 95, 96, 97, 97, 98, 98, 99, 100, 100, 101, 101, 102, 102, 103, 104,
    104, 105, 105, 106, 107, 107, 108, 109, 109, 110, 110, 111, 112, 112, 113, 114, 114, 115, 115, 116,
    117, 117, 118, 119, 119, 120, 121, 121, 122, 123, 123, 124, 125, 125, 126, 127, 127, 128, 129, 129,
    130, 131, 131, 132, 133, 133, 134, 135, 136, 136, 137, 138, 138, 139, 140, 140, 141, 142, 143, 143,
    144, 145, 146, 146, 147, 148, 148, 149, 150, 151, 151, 152, 153, 154, 154, 155, 156, 157, 158, 158,
    159, 160, 161, 161, 162, 163, 164, 164, 165, 166, 167, 168, 168, 169, 170, 171, 172, 172, 173, 174,
    175, 176, 177, 177, 178, 179, 180, 181, 181, 182, 183, 184, 185, 186, 186, 187, 188, 189, 190, 191,
    192, 192, 193, 194, 195, 196, 197, 198, 199, 199, 200, 201, 202, 203, 204, 205, 206, 206, 207, 208,
    209, 210, 211, 212, 213, 214, 215, 216, 216, 217, 218, 219, 220, 221, 222, 223, 224, 225, 226, 227,
    228, 229, 230, 231, 232, 232, 233, 234, 235, 236, 237, 238, 239, 240, 241, 242, 243, 244, 245, 246,
    247, 248, 249, 250, 251, 252, 253, 254, 255, 256, 257, 258, 259, 260, 261, 262, 263, 264, 265, 266,
    267, 269, 270, 271, 272, 273, 274, 275, 276, 277, 278, 279, 280, 281, 282, 283, 284, 286, 287, 288,
    289, 290, 291, 292, 293, 294, 295, 296, 298, 299, 300, 301, 302, 303, 304, 305, 307, 308, 309, 310,
    311, 312, 313, 315, 316, 317, 318, 319, 320, 321, 323, 324, 325, 326, 327, 328, 330, 331, 332, 333,
    334, 336, 337, 338, 339, 340, 341, 343, 344, 345, 346, 348, 349, 350, 351, 352, 354, 355, 356, 357,
    359, 360, 361, 362, 364, 365, 366, 367, 369, 370, 371, 372, 374, 375, 376, 377, 379, 380, 381, 383,
    384, 385, 386, 388, 389, 390, 392, 393, 394, 395, 397, 398, 399, 401, 402, 403, 405, 406, 407, 409,
    410, 411, 413, 414, 415, 417, 418, 419, 421, 422, 424, 425, 426, 428, 429, 430, 432, 433, 434, 436,
    437, 439, 440, 441, 443, 444, 446, 447, 448, 450, 451, 453, 454, 456, 457, 458, 460, 461, 463, 464,
    466, 467, 468, 470, 471, 473, 474, 476, 477, 479, 480, 482, 483, 484, 486, 487, 489, 490, 492, 493,
    495, 496, 498, 499, 501, 502, 504, 505, 507, 508, 510, 511, 513, 514, 516, 518, 519, 521, 522, 524,
    525, 527, 528, 530, 531, 533, 535, 536, 538, 539, 541, 542, 544, 546, 547, 549, 550, 552, 553, 555,
    557, 558, 560, 561, 563, 565, 566, 568, 570, 571, 573, 574, 576, 578, 579, 581, 583, 584, 586, 587,
    589, 591, 592, 594, 596, 597, 599, 601, 602, 604, 606, 607, 609, 611, 613, 614, 616, 618, 619, 621,
    623, 624, 626, 628, 630, 631, 633, 635, 636, 638, 640, 642, 643, 645, 647, 649, 650, 652, 654, 656,
    657, 659, 661, 663, 664, 666, 668, 670, 672, 673, 675, 677, 679, 680, 682, 684, 686, 688, 690, 691,
    693, 695, 697, 699, 700, 702, 704, 706, 708, 710, 711, 713, 715, 717, 719, 721, 723, 724, 726, 728,
    730, 732, 734, 736, 738, 739, 741, 743, 745, 747, 749, 751, 753, 755, 756, 758, 760, 762, 764, 766,
    768, 770, 772, 774, 776, 778, 780, 782, 784, 785, 787, 789, 791, 793, 795, 797, 799, 801, 803, 805,
    807, 809, 811, 813, 815, 817, 819, 821, 823, 825, 827, 829, 831, 833, 835, 837, 839, 841, 843, 845,
    847, 849, 851, 854, 856, 858, 860, 862, 864, 866, 868, 870, 872, 874, 876, 878, 880, 883, 885, 887,
    889, 891, 893, 895, 897, 899, 901, 904, 906, 908, 910, 912, 914, 916, 918, 921, 923, 925, 927, 929,
    931, 934, 936, 938, 940, 942, 944, 947, 949, 951, 953, 955, 957, 960, 962, 964, 966, 968, 971, 973,
    975, 977, 980, 982, 984, 986, 988, 991, 993, 995, 997, 1000, 1002, 1004, 1006, 1009, 1011, 1013, 1015, 1018,
    1020
  >>

LinearTosRGBTable ==
  <<
    0, 12, 25, 38, 50, 61, 70, 78, 86, 93, 100, 106, 112, 118, 124, 129, 134, 139, 144, 148,
    153, 157, 161, 165, 169, 173, 177, 180, 184, 188, 191, 194, 198, 201, 204, 207, 211, 214, 217, 220,
    223, 225, 228, 231, 234, 237, 239, 242, 245, 247, 250, 252, 255, 257, 260, 262, 265, 267, 269, 272,
    274, 276, 278, 281, 283, 285, 287, 289, 292, 294, 296, 298, 300, 302, 304, 306, 308, 310, 312, 314,
    316, 318, 320, 322, 324, 326, 327, 329, 331, 333, 335, 337, 338, 340, 342, 344, 345, 347, 349, 351,
    352, 354, 356, 357, 359, 361, 362, 364, 366, 367, 369, 370, 372, 374, 375, 377, 378, 380, 381, 383,
    385, 386, 388, 389, 391, 392, 394, 395, 397, 398, 400, 401, 402, 404, 405, 407, 408, 410, 411, 412,
    414, 415, 417, 418, 419, 421, 422, 423, 425, 426, 428, 429, 430, 432, 433, 434, 436, 437, 438, 439,
    441, 442, 443, 445, 446, 447, 448, 450, 451, 452, 453, 455, 456, 457, 458, 460, 461, 462, 463, 465,
    466, 467, 468, 469, 471, 472, 473, 474, 475, 476, 478, 479, 480, 481, 482, 483, 485, 486, 487, 488,
    489, 490, 491, 493, 494, 495, 496, 497, 498, 499, 500, 502, 503, 504, 505, 506, 507, 508, 509, 510,
    511, 512, 513, 515, 516, 517, 518, 519, 520, 521, 522, 523, 524, 525, 526, 527, 528, 529, 530, 531,
    532, 533, 534, 535, 536, 537, 538, 539, 540, 541, 542, 543, 544, 545, 546, 547, 548, 549, 550, 551,
    552, 553, 554, 555, 556, 557, 558, 559, 560, 561, 562, 563, 564, 565, 566, 567, 568, 569, 569, 570,
    571, 572, 573, 574, 575, 576, 577, 578, 579, 580, 581, 582, 582, 583, 584, 585, 586, 587, 588, 589,
    590, 591, 591, 592, 593, 594, 595, 596, 597, 598, 599, 599, 600, 601, 602, 603, 604, 605, 606, 606,
    607, 608, 609, 610, 611, 612, 612, 613, 614, 615, 616, 617, 618, 618, 619, 620, 621, 622, 623, 623,
    624, 625, 626, 627, 628, 628, 629, 630, 631, 632, 633, 633, 634, 635, 636, 637, 637, 638, 639, 640,
    641, 641, 642, 643, 644, 645, 645, 646, 647, 648, 649, 649, 650, 651, 652, 653, 653, 654, 655, 656,
    657, 657, 658, 659, 660, 660, 661, 662, 663, 664, 664, 665, 666, 667, 667, 668, 669, 670, 670, 671,
    672, 673, 673, 674, 675, 676, 676, 677, 678, 679, 679, 680, 681, 682, 682, 683, 684, 685, 685, 686,
    687, 688, 688, 689, 690, 691, 691, 692, 693, 694, 694, 695, 696, 696, 697, 698, 699, 699, 700, 701,
    701, 702, 703, 704, 704, 705, 706, 706, 707, 708, 709, 709, 710, 711, 711, 712, 713, 714, 714, 715,
    716, 716, 717, 718, 718, 719, 720, 721, 721, 722, 723, 723, 724, 725, 725, 726, 727, 727, 728, 729,
    729, 730, 731, 731, 732, 733, 734, 734, 735, 736, 736, 737, 738, 738, 739, 740, 740, 741, 742, 742,
    743, 744, 744, 745, 746, 746, 747, 748, 748, 749, 750, 750, 751, 752, 752, 753, 754, 754, 755, 755,
    756, 757, 757, 758, 759, 759, 760, 761, 761, 762, 763, 763, 764, 765, 765, 766, 766, 767, 768, 768,
    769, 770, 770, 771, 772, 772, 773, 773, 774, 775, 775, 776, 777, 777, 778, 778, 779, 780, 780, 781,
    782, 782, 783, 783, 784, 785, 785, 786, 787, 787, 788, 788, 789, 790, 790, 791, 791, 792, 793, 793,
    794, 795, 795, 796, 796, 797, 798, 798, 799, 799, 800, 801, 801, 802, 802, 803, 804, 804, 805, 805,
    806, 807, 807, 808, 808, 809, 810, 810, 811, 811, 812, 813, 813, 814, 814, 815, 816, 816, 817, 817,
    818, 818, 819, 820, 820, 821, 821, 822, 823, 823, 824, 824, 825, 826, 826, 827, 827, 828, 828, 829,
    830, 830, 831, 831, 832, 832, 833, 834, 834, 835, 835, 836, 836, 837, 838, 838, 839, 839, 840, 840,
    841, 842, 842, 843, 843, 844, 844, 845, 846, 846, 847, 847, 848, 848, 849, 849, 850, 851, 851, 852,
    852, 853, 853, 854, 854, 855, 856, 856, 857, 857, 858, 858, 859, 859, 860, 861, 861, 862, 862, 863,
    863, 864, 864, 865, 865, 866, 867, 867, 868, 868, 869, 869, 870, 870, 871, 871, 872, 873, 873, 874,
    874, 875, 875, 876, 876, 877, 877, 878, 878, 879, 879, 880, 881, 881, 882, 882, 883, 883, 884, 884,
    885, 885, 886, 886, 887, 887, 888, 889, 889, 890, 890, 891, 891, 892, 892, 893, 893, 894, 894, 895,
    895, 896, 896, 897, 897, 898, 898, 899, 899, 900, 901, 901, 902, 902, 903, 903, 904, 904, 905, 905,
    906, 906, 907, 907, 908, 908, 909, 909, 910, 910, 911, 911, 912, 912, 913, 913, 914, 914, 915, 915,
    916, 916, 917, 917, 918, 918, 919, 919, 920, 920, 921, 921, 922, 922, 923, 923, 924, 924, 925, 925,
    926, 926, 927, 927, 928, 928, 929, 929, 930, 930, 931, 931, 932, 932, 933, 933, 934, 934, 935, 935,
    936, 936, 937, 937, 938, 938, 939, 939, 940, 940, 941, 941, 942, 942, 943, 943, 944, 944, 945, 945,
    946, 946, 947, 947, 948, 948, 949, 949, 950, 950, 950, 951, 951, 952, 952, 953, 953, 954, 954, 955,
    955, 956, 956, 957, 957, 958, 958, 959, 959, 960, 960, 961, 961, 962, 962, 962, 963, 963, 964, 964,
    965, 965, 966, 966, 967, 967, 968, 968, 969, 969, 970, 970, 970, 971, 971, 972, 972, 973, 973, 974,
    974, 975, 975, 976, 976, 977, 977, 977, 978, 978, 979, 979, 980, 980, 981, 981, 982, 982, 983, 983,
    983, 984, 984, 985, 985, 986, 986, 987, 987, 988, 988, 989, 989, 989, 990, 990, 991, 991, 992, 992,
    993, 993, 994, 994, 994, 995, 995, 996, 996, 997, 997, 998, 998, 999, 999, 999, 1000, 1000, 1001, 1001,
    1002, 1002, 1003, 1003, 1004, 1004, 1004, 1005, 1005, 1006, 1006, 1007, 1007, 1008, 1008, 1008, 1009, 1009, 1010, 1010,
    1011, 1011, 1012, 1012, 1012, 1013, 1013, 1014, 1014, 1015, 1015, 1016, 1016, 1016, 1017, 1017, 1018, 1018, 1019, 1019,
    1020
  >>

\* The 9885 values LinearTosRGB leaves in a table whose entry i held
\* float32(i)/float32(9884) (makeOutputLUT_Xto32 with tableSize 9885).
LinearTosRGBFine ==
  <<
    0, 1, 2, 3, 5, 6, 7, 9, 10, 11, 13, 14, 15, 17, 18, 19, 21, 22, 23, 25,
    26, 27, 29, 30, 31, 33, 34, 35, 37, 38, 39, 41, 42, 43, 45, 46, 47, 48, 49, 51,
    52, 53, 54, 55, 56, 57, 58, 59, 60, 61, 62, 63, 64, 65, 66, 67, 68, 69, 70, 71,
    72, 73, 73, 74, 75, 76, 77, 78, 79, 79, 80, 81, 82, 83, 83, 84, 85, 86, 87, 87,
    88, 89, 90, 90, 91, 92, 92, 93, 94, 95, 95, 96, 97, 97, 98, 99, 99, 100, 101, 101,
    102, 103, 103, 104, 105, 105, 106, 107, 107, 108, 109, 109, 110, 110, 111, 112, 112, 113, 113, 114,
    115, 115, 116, 116, 117, 118, 118, 119, 119, 120, 120, 121, 122, 122, 123, 123, 124, 124, 125, 125,
    126, 127, 127, 128, 128, 129, 129, 130, 130, 131, 131, 132, 132, 133, 133, 134, 134, 135, 135, 136,
    136, 137, 137, 138, 138, 139, 139, 140, 140, 141, 141, 142, 142, 143, 143, 144, 144, 145, 145, 146,
    146, 147, 147, 148, 148, 148, 149, 149, 150, 150, 151, 151, 152, 152, 153, 153, 153, 154, 154, 155,
    155, 156, 156, 157, 157, 157, 158, 158, 159, 159, 160, 160, 160, 161, 161, 162, 162, 163, 163, 163,
    164, 164, 165, 165, 166, 166, 166, 167, 167, 168, 168, 168, 169, 169, 170, 170, 170, 171, 171, 172,
    172, 172, 173, 173, 174, 174, 174, 175, 175, 176, 176, 176, 177, 177, 177, 178, 178, 179, 179, 179,
    180, 180, 180, 181, 181, 182, 182, 182, 183, 183, 183, 184, 184, 185, 185, 185, 186, 186, 186, 187,
    187, 188, 188, 188, 189, 189, 189, 190, 190, 190, 191, 191, 191, 192, 192, 193, 193, 193, 194, 194,
    194, 195, 195, 195, 196, 196, 196, 197, 197, 197, 198, 198, 198, 199, 199, 199, 200, 200, 200, 201,
    201, 201, 202, 202, 202, 203, 203, 203, 204, 204, 204, 205, 205, 205, 206, 206, 206, 207, 207, 207,
    208, 208, 208, 209, 209, 209, 210, 210, 210, 211, 211, 211, 212, 212, 212, 212, 213, 213, 213, 214,
    214, 214, 215, 215, 215, 216, 216, 216, 217, 217, 217, 217, 218, 218, 218, 219, 219, 219, 220, 220,
    220, 221, 221, 221, 221, 222, 222, 222, 223, 223, 223, 224, 224, 224, 224, 225, 225, 225, 226, 226,
    226, 227, 227, 227, 227, 228, 228, 228, 229, 229, 229, 229, 230, 230, 230, 231, 231, 231, 231, 232,
    232, 232, 233, 233, 233, 233, 234, 234, 234, 235, 235, 235, 235, 236, 236, 236, 237, 237, 237, 237,
    238, 238, 238, 238, 239, 239, 239, 240, 240, 240, 240, 241, 241, 241, 242, 242, 242, 242, 243, 243,
    243, 243, 244, 244, 244, 245, 245, 245, 245, 246, 246, 246, 246, 247, 247, 247, 247, 248, 248, 248,
    249, 249, 249, 249, 250, 250, 250, 250, 251, 251, 251, 251, 252, 252, 252, 252, 253, 253, 253, 254,
    254, 254, 254, 255, 255, 255, 255, 256, 256, 256, 256, 257, 257, 257, 257, 258, 258, 258, 258, 259,
    259, 259, 259, 260, 260, 260, 260, 261, 261, 261, 261, 262, 262, 262, 262, 263, 263, 263, 263, 264,
    264, 264, 264, 265, 265, 265, 265, 266, 266, 266, 266, 267, 267, 267, 267, 268, 268, 268, 268, 269,
    269, 269, 269, 269, 270, 270, 270, 270, 271, 271, 271, 271, 272, 272, 272, 272, 273, 273, 273, 273,
    274, 274, 274, 274, 275, 275, 275, 275, 275, 276, 276, 276, 276, 277, 277, 277, 277, 278, 278, 278,
    278, 278, 279, 279, 279, 279, 280, 280, 280, 280, 281, 281, 281, 281, 281, 282, 282, 282, 282, 283,
    283, 283, 283, 284, 284, 284, 284, 284, 285, 285, 285, 285, 286, 286, 286, 286, 286, 287, 287, 287,
    287, 288, 288, 288, 288, 289, 289, 289, 289, 289, 290, 290, 290, 290, 291, 291, 291, 291, 291, 292,
    292, 292, 292, 292, 293, 293, 293, 293, 294, 294, 294, 294, 294, 295, 295, 295, 295, 296, 296, 296,
    296, 296, 297, 297, 297, 297, 297, 298, 298, 298, 298, 299, 299, 299, 299, 299, 300, 300, 300, 300,
    300, 301, 301, 301, 301, 302, 302, 302, 302, 302, 303, 303, 303, 303, 303, 304, 304, 304, 304, 304,
    305, 305, 305, 305, 306, 306, 306, 306, 306, 307, 307, 307, 307, 307, 308, 308, 308, 308, 308, 309,
    309, 309, 309, 309, 310, 310, 310, 310, 310, 311, 311, 311, 311, 311, 312, 312, 312, 312, 313, 313,
    313, 313, 313, 314, 314, 314, 314, 314, 315, 315, 315, 315, 315, 316, 316, 316, 316, 316, 317, 317,
    317, 317, 317, 318, 318, 318, 318, 318, 319, 319, 319, 319, 319, 320, 320, 320, 320, 320, 321, 321,
    321, 321, 321, 321, 322, 322, 322, 322, 322, 323, 323, 323, 323, 323, 324, 324, 324, 324, 324, 325,
    325, 325, 325, 325, 326, 326, 326, 326, 326, 327, 327, 327, 327, 327, 328, 328, 328, 328, 328, 328,
    329, 329, 329, 329, 329, 330, 330, 330, 330, 330, 331, 331, 331, 331, 331, 332, 332, 332, 332, 332,
    332, 333, 333, 333, 333, 333, 334, 334, 334, 334, 334, 335, 335, 335, 335, 335, 335, 336, 336, 336,
    336, 336, 337, 337, 337, 337, 337, 337, 338, 338, 338, 338, 338, 339, 339, 339, 339, 339, 340, 340,
    340, 340, 340, 340, 341, 341, 341, 341, 341, 342, 342, 342, 342, 342, 342, 343, 343, 343, 343, 343,
    344, 344, 344, 344, 344, 344, 345, 345, 345, 345, 345, 346, 346, 346, 346, 346, 346, 347, 347, 347,
    347, 347, 347, 348, 348, 348, 348, 348, 349, 349, 349, 349, 349, 349, 350, 350, 350, 350, 350, 351,
    351, 351, 351, 351, 351, 352, 352, 352, 352, 352, 352, 353, 353, 353, 353, 353, 354, 354, 354, 354,
    354, 354, 355, 355, 355, 355, 355, 355, 356, 356, 356, 356, 356, 356, 357, 357, 357, 357, 357, 358,
    358, 358, 358, 358, 358, 359, 359, 359, 359, 359, 359, 360, 360, 360, 360, 360, 360, 361, 361, 361,
    361, 361, 361, 362, 362, 362, 362, 362, 362, 363, 363, 363, 363, 363, 363, 364, 364, 364, 364, 364,
    365, 365, 365, 365, 365, 365, 366, 366, 366, 366, 366, 366, 367, 367, 367, 367, 367, 367, 368, 368,
    368, 368, 368, 368, 369, 369, 369, 369, 369, 369, 370, 370, 370, 370, 370, 370, 371, 371, 371, 371,
    371, 371, 372, 372, 372, 372, 372, 372, 373, 373, 373, 373, 373, 373, 373, 374, 374, 374, 374, 374,
    374, 375, 375, 375, 375, 375, 375, 376, 376, 376, 376, 376, 376, 377, 377, 377, 377, 377, 377, 378,
    378, 378, 378, 378, 378, 379, 379, 379, 379, 379, 379, 379, 380, 380, 380, 380, 380, 380, 381, 381,
    381, 381, 381, 381, 382, 382, 382, 382, 382, 382, 383, 383, 383, 383, 383, 383, 383, 384, 384, 384,
    384, 384, 384, 385, 385, 385, 385, 385, 385, 386, 386, 386, 386, 386, 386, 386, 387, 387, 387, 387,
    387, 387, 388, 388, 388, 388, 388, 388, 389, 389, 389, 389, 389, 389, 389, 390, 390, 390, 390, 390,
    390, 391, 391, 391, 391, 391, 391, 391, 392, 392, 392, 392, 392, 392, 393, 393, 393, 393, 393, 393,
    393, 394, 394, 394, 394, 394, 394, 395, 395, 395, 395, 395, 395, 395, 396, 396, 396, 396, 396, 396,
    397, 397, 397, 397, 397, 397, 397, 398, 398, 398, 398, 398, 398, 399, 399, 399, 399, 399, 399, 399,
    400, 400, 400, 400, 400, 400, 400, 401, 401, 401, 401, 401, 401, 402, 402, 402, 402, 402, 402, 402,
    403, 403, 403, 403, 403, 403, 403, 404, 404, 404, 404, 404, 404, 405, 405, 405, 405, 405, 405, 405,
    406, 406, 406, 406, 406, 406, 406, 407, 407, 407, 407, 407, 407, 407, 408, 408, 408, 408, 408, 408,
    408, 409, 409, 409, 409, 409, 409, 410, 410, 410, 410, 410, 410, 410, 411, 411, 411, 411, 411, 411,
    411, 412, 412, 412, 412, 412, 412, 412, 413, 413, 413, 413, 413, 413, 413, 414, 414, 414, 414, 414,
    414, 414, 415, 415, 415, 415, 415, 415, 415, 416, 416, 416, 416, 416, 416, 416, 417, 417, 417, 417,
    417, 417, 417, 418, 418, 418, 418, 418, 418, 418, 419, 419, 419, 419, 419, 419, 419, 420, 420, 420,
    420, 420, 420, 420, 421, 421, 421, 421, 421, 421, 421, 422, 422, 422, 422, 422, 422, 422, 423, 423,
    423, 423, 423, 423, 423, 424, 424, 424, 424, 424, 424, 424, 425, 425, 425, 425, 425, 425, 425, 426,
    426, 426, 426, 426, 426, 426, 426, 427, 427, 427, 427, 427, 427, 427, 428, 428, 428, 428, 428, 428,
    428, 429, 429, 429, 429, 429, 429, 429, 430, 430, 430, 430, 430, 430, 430, 431, 431, 431, 431, 431,
    431, 431, 431, 432, 432, 432, 432, 432, 432, 432, 433, 433, 433, 433, 433, 433, 433, 434, 434, 434,
    434, 434, 434, 434, 434, 435, 435, 435, 435, 435, 435, 435, 436, 436, 436, 436, 436, 436, 436, 437,
    437, 437, 437, 437, 437, 437, 437, 438, 438, 438, 438, 438, 438, 438, 439, 439, 439, 439, 439, 439,
    439, 439, 440, 440, 440, 440, 440, 440, 440, 441, 441, 441, 441, 441, 441, 441, 441, 442, 442, 442,
    442, 442, 442, 442, 443, 443, 443, 443, 443, 443, 443, 443, 444, 444, 444, 444, 444, 444, 444, 445,
    445, 445, 445, 445, 445, 445, 445, 446, 446, 446, 446, 446, 446, 446, 447, 447, 447, 447, 447, 447,
    447, 447, 448, 448, 448, 448, 448, 448, 448, 448, 449, 449, 449, 449, 449, 449, 449, 450, 450, 450,
    450, 450, 450, 450, 450, 451, 451, 451, 451, 451, 451, 451, 451, 452, 452, 452, 452, 452, 452, 452,
    453, 453, 453, 453, 453, 453, 453, 453, 454, 454, 454, 454, 454, 454, 454, 454, 455, 455, 455, 455,
    455, 455, 455, 455, 456, 456, 456, 456, 456, 456, 456, 457, 457, 457, 457, 457, 457, 457, 457, 458,
    458, 458, 458, 458, 458, 458, 458, 459, 459, 459, 459, 459, 459, 459, 459, 460, 460, 460, 460, 460,
    460, 460, 460, 461, 461, 461, 461, 461, 461, 461, 461, 462, 462, 462, 462, 462, 462, 462, 462, 463,
    463, 463, 463, 463, 463, 463, 463, 464, 464, 464, 464, 464, 464, 464, 464, 465, 465, 465, 465, 465,
    465, 465, 465, 466, 466, 466, 466, 466, 466, 466, 466, 467, 467, 467, 467, 467, 467, 467, 467, 468,
    468, 468, 468, 468, 468, 468, 468, 469, 469, 469, 469, 469, 469, 469, 469, 470, 470, 470, 470, 470,
    470, 470, 470, 471, 471, 471, 471, 471, 471, 471, 471, 472, 472, 472, 472, 472, 472, 472, 472, 473,
    473, 473, 473, 473, 473, 473, 473, 474, 474, 474, 474, 474, 474, 474, 474, 474, 475, 475, 475, 475,
    475, 475, 475, 475, 476, 476, 476, 476, 476, 476, 476, 476, 477, 477, 477, 477, 477, 477, 477, 477,
    478, 478, 478, 478, 478, 478, 478, 478, 478, 479, 479, 479, 479, 479, 479, 479, 479, 480, 480, 480,
    480, 480, 480, 480, 480, 481, 481, 481, 481, 481, 481, 481, 481, 481, 482, 482, 482, 482, 482, 482,
    482, 482, 483, 483, 483, 483, 483, 483, 483, 483, 484, 484, 484, 484, 484, 484, 484, 484, 484, 485,
    485, 485, 485, 485, 485, 485, 485, 486, 486, 486, 486, 486, 486, 486, 486, 486, 487, 487, 487, 487,
    487, 487, 487, 487, 488, 488, 488, 488, 488, 488, 488, 488, 488, 489, 489, 489, 489, 489, 489, 489,
    489, 490, 490, 490, 490, 490, 490, 490, 490, 490, 491, 491, 491, 491, 491, 491, 491, 491, 492, 492,
    492, 492, 492, 492, 492, 492, 492, 493, 493, 493, 493, 493, 493, 493, 493, 494, 494, 494, 494, 494,
    494, 494, 494, 494, 495, 495, 495, 495, 495, 495, 495, 495, 495, 496, 496, 496, 496, 496, 496, 496,
    496, 497, 497, 497, 497, 497, 497, 497, 497, 497, 498, 498, 498, 498, 498, 498, 498, 498, 498, 499,
    499, 499, 499, 499, 499, 499, 499, 500, 500, 500, 500, 500, 500, 500, 500, 500, 501, 501, 501, 501,
    501, 501, 501, 501, 501, 502, 502, 502, 502, 502, 502, 502, 502, 502, 503, 503, 503, 503, 503, 503,
    503, 503, 503, 504, 504, 504, 504, 504, 504, 504, 504, 504, 505, 505, 505, 505, 505, 505, 505, 505,
    506, 506, 506, 506, 506, 506, 506, 506, 506, 507, 507, 507, 507, 507, 507, 507, 507, 507, 508, 508,
    508, 508, 508, 508, 508, 508, 508, 509, 509, 509, 509, 509, 509, 509, 509, 509, 510, 510, 510, 510,
    510, 510, 510, 510, 510, 511, 511, 511, 511, 511, 511, 511, 511, 511, 512, 512, 512, 512, 512, 512,
    512, 512, 512, 513, 513, 513, 513, 513, 513, 513, 513, 513, 514, 514, 514, 514, 514, 514, 514, 514,
    514, 515, 515, 515, 515, 515, 515, 515, 515, 515, 516, 516, 516, 516, 516, 516, 516, 516, 516, 517,
    517, 517, 517, 517, 517, 517, 517, 517, 517, 518, 518, 518, 518, 518, 518, 518, 518, 518, 519, 519,
    519, 519, 519, 519, 519, 519, 519, 520, 520, 520, 520, 520, 520, 520, 520, 520, 521, 521, 521, 521,
    521, 521, 521, 521, 521, 522, 522, 522, 522, 522, 522, 522, 522, 522, 522, 523, 523, 523, 523, 523,
    523, 523, 523, 523, 524, 524, 524, 524, 524, 524, 524, 524, 524, 525, 525, 525, 525, 525, 525, 525,
    525, 525, 526, 526, 526, 526, 526, 526, 526, 526, 526, 526, 527, 527, 527, 527, 527, 527, 527, 527,
    527, 528, 528, 528, 528, 528, 528, 528, 528, 528, 528, 529, 529, 529, 529, 529, 529, 529, 529, 529,
    530, 530, 530, 530, 530, 530, 530, 530, 530, 531, 531, 531, 531, 531, 531, 531, 531, 531, 531, 532,
    532, 532, 532, 532, 532, 532, 532, 532, 533, 533, 533, 533, 533, 533, 533, 533, 533, 533, 534, 534,
    534, 534, 534, 534, 534, 534, 534, 535, 535, 535, 535, 535, 535, 535, 535, 535, 535, 536, 536, 536,
    536, 536, 536, 536, 536, 536, 537, 537, 537, 537, 537, 537, 537, 537, 537, 537, 538, 538, 538, 538,
    538, 538, 538, 538, 538, 538, 539, 539, 539, 539, 539, 539, 539, 539, 539, 540, 540, 540, 540, 540,
    540, 540, 540, 540, 540, 541, 541, 541, 541, 541, 541, 541, 541, 541, 541, 542, 542, 542, 542, 542,
    542, 542, 542, 542, 543, 543, 543, 543, 543, 543, 543, 543, 543, 543, 544, 544, 544, 544, 544, 544,
    544, 544, 544, 544, 545, 545, 545, 545, 545, 545, 545, 545, 545, 546, 546, 546, 546, 546, 546, 546,
    546, 546, 546, 547, 547, 547, 547, 547, 547, 547, 547, 547, 547, 548, 548, 548, 548, 548, 548, 548,
    548, 548, 548, 549, 549, 549, 549, 549, 549, 549, 549, 549, 549, 550, 550, 550, 550, 550, 550, 550,
    550, 550, 550, 551, 551, 551, 551, 551, 551, 551, 551, 551, 551, 552, 552, 552, 552, 552, 552, 552,
    552, 552, 553, 553, 553, 553, 553, 553, 553, 553, 553, 553, 554, 554, 554, 554, 554, 554, 554, 554,
    554, 554, 555, 555, 555, 555, 555, 555, 555, 555, 555, 555, 556, 556, 556, 556, 556, 556, 556, 556,
    556, 556, 557, 557, 557, 557, 557, 557, 557, 557, 557, 557, 558, 558, 558, 558, 558, 558, 558, 558,
    558, 558, 559, 559, 559, 559, 559, 559, 559, 559, 559, 559, 559, 560, 560, 560, 560, 560, 560, 560,
    560, 560, 560, 561, 561, 561, 561, 561, 561, 561, 561, 561, 561, 562, 562, 562, 562, 562, 562, 562,
    562, 562, 562, 563, 563, 563, 563, 563, 563, 563, 563, 563, 563, 564, 564, 564, 564, 564, 564, 564,
    564, 564, 564, 565, 565, 565, 565, 565, 565, 565, 565, 565, 565, 565, 566, 566, 566, 566, 566, 566,
    566, 566, 566, 566, 567, 567, 567, 567, 567, 567, 567, 567, 567, 567, 568, 568, 568, 568, 568, 568,
    568, 568, 568, 568, 569, 569, 569, 569, 569, 569, 569, 569, 569, 569, 569, 570, 570, 570, 570, 570,
    570, 570, 570, 570, 570, 571, 571, 571, 571, 571, 571, 571, 571, 571, 571, 572, 572, 572, 572, 572,
    572, 572, 572, 572, 572, 572, 573, 573, 573, 573, 573, 573, 573, 573, 573, 573, 574, 574, 574, 574,
    574, 574, 574, 574, 574, 574, 574, 575, 575, 575, 575, 575, 575, 575, 575, 575, 575, 576, 576, 576,
    576, 576, 576, 576, 576, 576, 576, 576, 577, 577, 577, 577, 577, 577, 577, 577, 577, 577, 578, 578,
    578, 578, 578, 578, 578, 578, 578, 578, 578, 579, 579, 579, 579, 579, 579, 579, 579, 579, 579, 580,
    580, 580, 580, 580, 580, 580, 580, 580, 580, 580, 581, 581, 581, 581, 581, 581, 581, 581, 581, 581,
    582, 582, 582, 582, 582, 582, 582, 582, 582, 582, 582, 583, 583, 583, 583, 583, 583, 583, 583, 583,
    583, 583, 584, 584, 584, 584, 584, 584, 584, 584, 584, 584, 585, 585, 585, 585, 585, 585, 585, 585,
    585, 585, 585, 586, 586, 586, 586, 586, 586, 586, 586, 586, 586, 586, 587, 587, 587, 587, 587, 587,
    587, 587, 587, 587, 588, 588, 588, 588, 588, 588, 588, 588, 588, 588, 588, 589, 589, 589, 589, 589,
    589, 589, 589, 589, 589, 589, 590, 590, 590, 590, 590, 590, 590, 590, 590, 590, 590, 591, 591, 591,
    591, 591, 591, 591, 591, 591, 591, 591, 592, 592, 592, 592, 592, 592, 592, 592, 592, 592, 593, 593,
    593, 593, 593, 593, 593, 593, 593, 593, 593, 594, 594, 594, 594, 594, 594, 594, 594, 594, 594, 594,
    595, 595, 595, 595, 595, 595, 595, 595, 595, 595, 595, 596, 596, 596, 596, 596, 596, 596, 596, 596,
    596, 596, 597, 597, 597, 597, 597, 597, 597, 597, 597, 597, 597, 598, 598, 598, 598, 598, 598, 598,
    598, 598, 598, 598, 599, 599, 599, 599, 599, 599, 599, 599, 599, 599, 599, 600, 600, 600, 600, 600,
    600, 600, 600, 600, 600, 600, 601, 601, 601, 601, 601, 601, 601, 601, 601, 601, 601, 602, 602, 602,
    602, 602, 602, 602, 602, 602, 602, 602, 603, 603, 603, 603, 603, 603, 603, 603, 603, 603, 603, 604,
    604, 604, 604, 604, 604, 604, 604, 604, 604, 604, 605, 605, 605, 605, 605, 605, 605, 605, 605, 605,
    605, 605, 606, 606, 606, 606, 606, 606, 606, 606, 606, 606, 606, 607, 607, 607, 607, 607, 607, 607,
    607, 607, 607, 607, 608, 608, 608, 608, 608, 608, 608, 608, 608, 608, 608, 609, 609, 609, 609, 609,
    609, 609, 609, 609, 609, 609, 610, 610, 610, 610, 610, 610, 610, 610, 610, 610, 610, 610, 611, 611,
    611, 611, 611, 611, 611, 611, 611, 611, 611, 612, 612, 612, 612, 612, 612, 612, 612, 612, 612, 612,
    613, 613, 613, 613, 613, 613, 613, 613, 613, 613, 613, 613, 614, 614, 614, 614, 614, 614, 614, 614,
    614, 614, 614, 615, 615, 615, 615, 615, 615, 615, 615, 615, 615, 615, 616, 616, 616, 616, 616, 616,
    616, 616, 616, 616, 616, 616, 617, 617, 617, 617, 617, 617, 617, 617, 617, 617, 617, 618, 618, 618,
    618, 618, 618, 618, 618, 618, 618, 618, 618, 619, 619, 619, 619, 619, 619, 619, 619, 619, 619, 619,
    620, 620, 620, 620, 620, 620, 620, 620, 620, 620, 620, 620, 621, 621, 621, 621, 621, 621, 621, 621,
    621, 621, 621, 622, 622, 622, 622, 622, 622, 622, 622, 622, 622, 622, 622, 623, 623, 623, 623, 623,
    623, 623, 623, 623, 623, 623, 624, 624, 624, 624, 624, 624, 624, 624, 624, 624, 624, 624, 625, 625,
    625, 625, 625, 625, 625, 625, 625, 625, 625, 625, 626, 626, 626, 626, 626, 626, 626, 626, 626, 626,
    626, 627, 627, 627, 627, 627, 627, 627, 627, 627, 627, 627, 627, 628, 628, 628, 628, 628, 628, 628,
    628, 628, 628, 628, 628, 629, 629, 629, 629, 629, 629, 629, 629, 629, 629, 629, 630, 630, 630, 630,
    630, 630, 630, 630, 630, 630, 630, 630, 631, 631, 631, 631, 631, 631, 631, 631, 631, 631, 631, 631,
    632, 632, 632, 632, 632, 632, 632, 632, 632, 632, 632, 632, 633, 633, 633, 633, 633, 633, 633, 633,
    633, 633, 633, 633, 634, 634, 634, 634, 634, 634, 634, 634, 634, 634, 634, 635, 635, 635, 635, 635,
    635, 635, 635, 635, 635, 635, 635, 636, 636, 636, 636, 636, 636, 636, 636, 636, 636, 636, 636, 637,
    637, 637, 637, 637, 637, 637, 637, 637, 637, 637, 637, 638, 638, 638, 638, 638, 638, 638, 638, 638,
    638, 638, 638, 639, 639, 639, 639, 639, 639, 639, 639, 639, 639, 639, 639, 640, 640, 640, 640, 640,
    640, 640, 640, 640, 640, 640, 640, 641, 641, 641, 641, 641, 641, 641, 641, 641, 641, 641, 641, 642,
    642, 642, 642, 642, 642, 642, 642, 642, 642, 642, 642, 643, 643, 643, 643, 643, 643, 643, 643, 643,
    643, 643, 643, 644, 644, 644, 644, 644, 644, 644, 644, 644, 644, 644, 644, 645, 645, 645, 645, 645,
    645, 645, 645, 645, 645, 645, 645, 646, 646, 646, 646, 646, 646, 646, 646, 646, 646, 646, 646, 647,
    647, 647, 647, 647, 647, 647, 647, 647, 647, 647, 647, 647, 648, 648, 648, 648, 648, 648, 648, 648,
    648, 648, 648, 648, 649, 649, 649, 649, 649, 649, 649, 649, 649, 649, 649, 649, 650, 650, 650, 650,
    650, 650, 650, 650, 650, 650, 650, 650, 651, 651, 651, 651, 651, 651, 651, 651, 651, 651, 651, 651,
    651, 652, 652, 652, 652, 652, 652, 652, 652, 652, 652, 652, 652, 653, 653, 653, 653, 653, 653, 653,
    653, 653, 653, 653, 653, 654, 654, 654, 654, 654, 654, 654, 654, 654, 654, 654, 654, 655, 655, 655,
    655, 655, 655, 655, 655, 655, 655, 655, 655, 655, 656, 656, 656, 656, 656, 656, 656, 656, 656, 656,
    656, 656, 657, 657, 657, 657, 657, 657, 657, 657, 657, 657, 657, 657, 657, 658, 658, 658, 658, 658,
    658, 658, 658, 658, 658, 658, 658, 659, 659, 659, 659, 659, 659, 659, 659, 659, 659, 659, 659, 660,
    660, 660, 660, 660, 660, 660, 660, 660, 660, 660, 660, 660, 661, 661, 661, 661, 661, 661, 661, 661,
    661, 661, 661, 661, 662, 662, 662, 662, 662, 662, 662, 662, 662, 662, 662, 662, 662, 663, 663, 663,
    663, 663, 663, 663, 663, 663, 663, 663, 663, 663, 664, 664, 664, 664, 664, 664, 664, 664, 664, 664,
    664, 664, 665, 665, 665, 665, 665, 665, 665, 665, 665, 665, 665, 665, 665, 666, 666, 666, 666, 666,
    666, 666, 666, 666, 666, 666, 666, 667, 667, 667, 667, 667, 667, 667, 667, 667, 667, 667, 667, 667,
    668, 668, 668, 668, 668, 668, 668, 668, 668, 668, 668, 668, 668, 669, 669, 669, 669, 669, 669, 669,
    669, 669, 669, 669, 669, 670, 670, 670, 670, 670, 670, 670, 670, 670, 670, 670, 670, 670, 671, 671,
    671, 671, 671, 671, 671, 671, 671, 671, 671, 671, 671, 672, 672, 672, 672, 672, 672, 672, 672, 672,
    672, 672, 672, 672, 673, 673, 673, 673, 673, 673, 673, 673, 673, 673, 673, 673, 674, 674, 674, 674,
    674, 674, 674, 674, 674, 674, 674, 674, 674, 675, 675, 675, 675, 675, 675, 675, 675, 675, 675, 675,
    675, 675, 676, 676, 676, 676, 676, 676, 676, 676, 676, 676, 676, 676, 676, 677, 677, 677, 677, 677,
    677, 677, 677, 677, 677, 677, 677, 677, 678, 678, 678, 678, 678, 678, 678, 678, 678, 678, 678, 678,
    678, 679, 679, 679, 679, 679, 679, 679, 679, 679, 679, 679, 679, 679, 680, 680, 680, 680, 680, 680,
    680, 680, 680, 680, 680, 680, 680, 681, 681, 681, 681, 681, 681, 681, 681, 681, 681, 681, 681, 681,
    682, 682, 682, 682, 682, 682, 682, 682, 682, 682, 682, 682, 682, 683, 683, 683, 683, 683, 683, 683,
    683, 683, 683, 683, 683, 683, 684, 684, 684, 684, 684, 684, 684, 684, 684, 684, 684, 684, 684, 685,
    685, 685, 685, 685, 685, 685, 685, 685, 685, 685, 685, 685, 686, 686, 686, 686, 686, 686, 686, 686,
    686, 686, 686, 686, 686, 687, 687, 687, 687, 687, 687, 687, 687, 687, 687, 687, 687, 687, 688, 688,
    688, 688, 688, 688, 688, 688, 688, 688, 688, 688, 688, 689, 689, 689, 689, 689, 689, 689, 689, 689,
    689, 689, 689, 689, 690, 690, 690, 690, 690, 690, 690, 690, 690, 690, 690, 690, 690, 690, 691, 691,
    691, 691, 691, 691, 691, 691, 691, 691, 691, 691, 691, 692, 692, 692, 692, 692, 692, 692, 692, 692,
    692, 692, 692, 692, 693, 693, 693, 693, 693, 693, 693, 693, 693, 693, 693, 693, 693, 694, 694, 694,
    694, 694, 694, 694, 694, 694, 694, 694, 694, 694, 694, 695, 695, 695, 695, 695, 695, 695, 695, 695,
    695, 695, 695, 695, 696, 696, 696, 696, 696, 696, 696, 696, 696, 696, 696, 696, 696, 697, 697, 697,
    697, 697, 697, 697, 697, 697, 697, 697, 697, 697, 697, 698, 698, 698, 698, 698, 698, 698, 698, 698,
    698, 698, 698, 698, 699, 699, 699, 699, 699, 699, 699, 699, 699, 699, 699, 699, 699, 699, 700, 700,
    700, 700, 700, 700, 700, 700, 700, 700, 700, 700, 700, 701, 701, 701, 701, 701, 701, 701, 701, 701,
    701, 701, 701, 701, 701, 702, 702, 702, 702, 702, 702, 702, 702, 702, 702, 702, 702, 702, 703, 703,
    703, 703, 703, 703, 703, 703, 703, 703, 703, 703, 703, 703, 704, 704, 704, 704, 704, 704, 704, 704,
    704, 704, 704, 704, 704, 705, 705, 705, 705, 705, 705, 705, 705, 705, 705, 705, 705, 705, 705, 706,
    706, 706, 706, 706, 706, 706, 706, 706, 706, 706, 706, 706, 707, 707, 707, 707, 707, 707, 707, 707,
    707, 707, 707, 707, 707, 707, 708, 708, 708, 708, 708, 708, 708, 708, 708, 708, 708, 708, 708, 708,
    709, 709, 709, 709, 709, 709, 709, 709, 709, 709, 709, 709, 709, 710, 710, 710, 710, 710, 710, 710,
    710, 710, 710, 710, 710, 710, 710, 711, 711, 711, 711, 711, 711, 711, 711, 711, 711, 711, 711, 711,
    711, 712, 712, 712, 712, 712, 712, 712, 712, 712, 712, 712, 712, 712, 712, 713, 713, 713, 713, 713,
    713, 713, 713, 713, 713, 713, 713, 713, 714, 714, 714, 714, 714, 714, 714, 714, 714, 714, 714, 714,
    714, 714, 715, 715, 715, 715, 715, 715, 715, 715, 715, 715, 715, 715, 715, 715, 716, 716, 716, 716,
    716, 716, 716, 716, 716, 716, 716, 716, 716, 716, 717, 717, 717, 717, 717, 717, 717, 717, 717, 717,
    717, 717, 717, 717, 718, 718, 718, 718, 718, 718, 718, 718, 718, 718, 718, 718, 718, 718, 719, 719,
    719, 719, 719, 719, 719, 719, 719, 719, 719, 719, 719, 719, 720, 720, 720, 720, 720, 720, 720, 720,
    720, 720, 720, 720, 720, 720, 721, 721, 721, 721, 721, 721, 721, 721, 721, 721, 721, 721, 721, 721,
    722, 722, 722, 722, 722, 722, 722, 722, 722, 722, 722, 722, 722, 722, 723, 723, 723, 723, 723, 723,
    723, 723, 723, 723, 723, 723, 723, 723, 724, 724, 724, 724, 724, 724, 724, 724, 724, 724, 724, 724,
    724, 724, 725, 725, 725, 725, 725, 725, 725, 725, 725, 725, 725, 725, 725, 725, 726, 726, 726, 726,
    726, 726, 726, 726, 726, 726, 726, 726, 726, 726, 727, 727, 727, 727, 727, 727, 727, 727, 727, 727,
    727, 727, 727, 727, 728, 728, 728, 728, 728, 728, 728, 728, 728, 728, 728, 728, 728, 728, 729, 729,
    729, 729, 729, 729, 729, 729, 729, 729, 729, 729, 729, 729, 730, 730, 730, 730, 730, 730, 730, 730,
    730, 730, 730, 730, 730, 730, 730, 731, 731, 731, 731, 731, 731, 731, 731, 731, 731, 731, 731, 731,
    731, 732, 732, 732, 732, 732, 732, 732, 732, 732, 732, 732, 732, 732, 732, 733, 733, 733, 733, 733,
    733, 733, 733, 733, 733, 733, 733, 733, 733, 734, 734, 734, 734, 734, 734, 734, 734, 734, 734, 734,
    734, 734, 734, 734, 735, 735, 735, 735, 735, 735, 735, 735, 735, 735, 735, 735, 735, 735, 736, 736,
    736, 736, 736, 736, 736, 736, 736, 736, 736, 736, 736, 736, 737, 737, 737, 737, 737, 737, 737, 737,
    737, 737, 737, 737, 737, 737, 737, 738, 738, 738, 738, 738, 738, 738, 738, 738, 738, 738, 738, 738,
    738, 739, 739, 739, 739, 739, 739, 739, 739, 739, 739, 739, 739, 739, 739, 739, 740, 740, 740, 740,
    740, 740, 740, 740, 740, 740, 740, 740, 740, 740, 741, 741, 741, 741, 741, 741, 741, 741, 741, 741,
    741, 741, 741, 741, 741, 742, 742, 742, 742, 742, 742, 742, 742, 742, 742, 742, 742, 742, 742, 743,
    743, 743, 743, 743, 743, 743, 743, 743, 743, 743, 743, 743, 743, 743, 744, 744, 744, 744, 744, 744,
    744, 744, 744, 744, 744, 744, 744, 744, 745, 745, 745, 745, 745, 745, 745, 745, 745, 745, 745, 745,
    745, 745, 745, 746, 746, 746, 746, 746, 746, 746, 746, 746, 746, 746, 746, 746, 746, 746, 747, 747,
    747, 747, 747, 747, 747, 747, 747, 747, 747, 747, 747, 747, 748, 748, 748, 748, 748, 748, 748, 748,
    748, 748, 748, 748, 748, 748, 748, 749, 749, 749, 749, 749, 749, 749, 749, 749, 749, 749, 749, 749,
    749, 749, 750, 750, 750, 750, 750, 750, 750, 750, 750, 750, 750, 750, 750, 750, 751, 751, 751, 751,
    751, 751, 751, 751, 751, 751, 751, 751, 751, 751, 751, 752, 752, 752, 752, 752, 752, 752, 752, 752,
    752, 752, 752, 752, 752, 752, 753, 753, 753, 753, 753, 753, 753, 753, 753, 753, 753, 753, 753, 753,
    753, 754, 754, 754, 754, 754, 754, 754, 754, 754, 754, 754, 754, 754, 754, 755, 755, 755, 755, 755,
    755, 755, 755, 755, 755, 755, 755, 755, 755, 755, 756, 756, 756, 756, 756, 756, 756, 756, 756, 756,
    756, 756, 756, 756, 756, 757, 757, 757, 757, 757, 757, 757, 757, 757, 757, 757, 757, 757, 757, 757,
    758, 758, 758, 758, 758, 758, 758, 758, 758, 758, 758, 758, 758, 758, 758, 759, 759, 759, 759, 759,
    759, 759, 759, 759, 759, 759, 759, 759, 759, 759, 760, 760, 760, 760, 760, 760, 760, 760, 760, 760,
    760, 760, 760, 760, 760, 761, 761, 761, 761, 761, 761, 761, 761, 761, 761, 761, 761, 761, 761, 761,
    762, 762, 762, 762, 762, 762, 762, 762, 762, 762, 762, 762, 762, 762, 762, 763, 763, 763, 763, 763,
    763, 763, 763, 763, 763, 763, 763, 763, 763, 763, 764, 764, 764, 764, 764, 764, 764, 764, 764, 764,
    764, 764, 764, 764, 764, 765, 765, 765, 765, 765, 765, 765, 765, 765, 765, 765, 765, 765, 765, 765,
    766, 766, 766, 766, 766, 766, 766, 766, 766, 766, 766, 766, 766, 766, 766, 767, 767, 767, 767, 767,
    767, 767, 767, 767, 767, 767, 767, 767, 767, 767, 767, 768, 768, 768, 768, 768, 768, 768, 768, 768,
    768, 768, 768, 768, 768, 768, 769, 769, 769, 769, 769, 769, 769, 769, 769, 769, 769, 769, 769, 769,
    769, 770, 770, 770, 770, 770, 770, 770, 770, 770, 770, 770, 770, 770, 770, 770, 771, 771, 771, 771,
    771, 771, 771, 771, 771, 771, 771, 771, 771, 771, 771, 772, 772, 772, 772, 772, 772, 772, 772, 772,
    772, 772, 772, 772, 772, 772, 772, 773, 773, 773, 773, 773, 773, 773, 773, 773, 773, 773, 773, 773,
    773, 773, 774, 774, 774, 774, 774, 774, 774, 774, 774, 774, 774, 774, 774, 774, 774, 775, 775, 775,
    775, 775, 775, 775, 775, 775, 775, 775, 775, 775, 775, 775, 775, 776, 776, 776, 776, 776, 776, 776,
    776, 776, 776, 776, 776, 776, 776, 776, 777, 777, 777, 777, 777, 777, 777, 777, 777, 777, 777, 777,
    777, 777, 777, 777, 778, 778, 778, 778, 778, 778, 778, 778, 778, 778, 778, 778, 778, 778, 778, 779,
    779, 779, 779, 779, 779, 779, 779, 779, 779, 779, 779, 779, 779, 779, 780, 780, 780, 780, 780, 780,
    780, 780, 780, 780, 780, 780, 780, 780, 780, 780, 781, 781, 781, 781, 781, 781, 781, 781, 781, 781,
    781, 781, 781, 781, 781, 782, 782, 782, 782, 782, 782, 782, 782, 782, 782, 782, 782, 782, 782, 782,
    782, 783, 783, 783, 783, 783, 783, 783, 783, 783, 783, 783, 783, 783, 783, 783, 783, 784, 784, 784,
    784, 784, 784, 784, 784, 784, 784, 784, 784, 784, 784, 784, 785, 785, 785, 785, 785, 785, 785, 785,
    785, 785, 785, 785, 785, 785, 785, 785, 786, 786, 786, 786, 786, 786, 786, 786, 786, 786, 786, 786,
    786, 786, 786, 787, 787, 787, 787, 787, 787, 787, 787, 787, 787, 787, 787, 787, 787, 787, 787, 788,
    788, 788, 788, 788, 788, 788, 788, 788, 788, 788, 788, 788, 788, 788, 788, 789, 789, 789, 789, 789,
    789, 789, 789, 789, 789, 789, 789, 789, 789, 789, 789, 790, 790, 790, 790, 790, 790, 790, 790, 790,
    790, 790, 790, 790, 790, 790, 791, 791, 791, 791, 791, 791, 791, 791, 791, 791, 791, 791, 791, 791,
    791, 791, 792, 792, 792, 792, 792, 792, 792, 792, 792, 792, 792, 792, 792, 792, 792, 792, 793, 793,
    793, 793, 793, 793, 793, 793, 793, 793, 793, 793, 793, 793, 793, 793, 794, 794, 794, 794, 794, 794,
    794, 794, 794, 794, 794, 794, 794, 794, 794, 794, 795, 795, 795, 795, 795, 795, 795, 795, 795, 795,
    795, 795, 795, 795, 795, 796, 796, 796, 796, 796, 796, 796, 796, 796, 796, 796, 796, 796, 796, 796,
    796, 797, 797, 797, 797, 797, 797, 797, 797, 797, 797, 797, 797, 797, 797, 797, 797, 798, 798, 798,
    798, 798, 798, 798, 798, 798, 798, 798, 798, 798, 798, 798, 798, 799, 799, 799, 799, 799, 799, 799,
    799, 799, 799, 799, 799, 799, 799, 799, 799, 800, 800, 800, 800, 800, 800, 800, 800, 800, 800, 800,
    800, 800, 800, 800, 800, 801, 801, 801, 801, 801, 801, 801, 801, 801, 801, 801, 801, 801, 801, 801,
    801, 802, 802, 802, 802, 802, 802, 802, 802, 802, 802, 802, 802, 802, 802, 802, 802, 803, 803, 803,
    803, 803, 803, 803, 803, 803, 803, 803, 803, 803, 803, 803, 803, 803, 804, 804, 804, 804, 804, 804,
    804, 804, 804, 804, 804, 804, 804, 804, 804, 804, 805, 805, 805, 805, 805, 805, 805, 805, 805, 805,
    805, 805, 805, 805, 805, 805, 806, 806, 806, 806, 806, 806, 806, 806, 806, 806, 806, 806, 806, 806,
    806, 806, 807, 807, 807, 807, 807, 807, 807, 807, 807, 807, 807, 807, 807, 807, 807, 807, 808, 808,
    808, 808, 808, 808, 808, 808, 808, 808, 808, 808, 808, 808, 808, 808, 809, 809, 809, 809, 809, 809,
    809, 809, 809, 809, 809, 809, 809, 809, 809, 809, 809, 810, 810, 810, 810, 810, 810, 810, 810, 810,
    810, 810, 810, 810, 810, 810, 810, 811, 811, 811, 811, 811, 811, 811, 811, 811, 811, 811, 811, 811,
    811, 811, 811, 812, 812, 812, 812, 812, 812, 812, 812, 812, 812, 812, 812, 812, 812, 812, 812, 812,
    813, 813, 813, 813, 813, 813, 813, 813, 813, 813, 813, 813, 813, 813, 813, 813, 814, 814, 814, 814,
    814, 814, 814, 814, 814, 814, 814, 814, 814, 814, 814, 814, 815, 815, 815, 815, 815, 815, 815, 815,
    815, 815, 815, 815, 815, 815, 815, 815, 815, 816, 816, 816, 816, 816, 816, 816, 816, 816, 816, 816,
    816, 816, 816, 816, 816, 817, 817, 817, 817, 817, 817, 817, 817, 817, 817, 817, 817, 817, 817, 817,
    817, 817, 818, 818, 818, 818, 818, 818, 818, 818, 818, 818, 818, 818, 818, 818, 818, 818, 819, 819,
    819, 819, 819, 819, 819, 819, 819, 819, 819, 819, 819, 819, 819, 819, 819, 820, 820, 820, 820, 820,
    820, 820, 820, 820, 820, 820, 820, 820, 820, 820, 820, 821, 821, 821, 821, 821, 821, 821, 821, 821,
    821, 821, 821, 821, 821, 821, 821, 821, 822, 822, 822, 822, 822, 822, 822, 822, 822, 822, 822, 822,
    822, 822, 822, 822, 823, 823, 823, 823, 823, 823, 823, 823, 823, 823, 823, 823, 823, 823, 823, 823,
    823, 824, 824, 824, 824, 824, 824, 824, 824, 824, 824, 824, 824, 824, 824, 824, 824, 824, 825, 825,
    825, 825, 825, 825, 825, 825, 825, 825, 825, 825, 825, 825, 825, 825, 826, 826, 826, 826, 826, 826,
    826, 826, 826, 826, 826, 826, 826, 826, 826, 826, 826, 827, 827, 827, 827, 827, 827, 827, 827, 827,
    827, 827, 827, 827, 827, 827, 827, 827, 828, 828, 828, 828, 828, 828, 828, 828, 828, 828, 828, 828,
    828, 828, 828, 828, 829, 829, 829, 829, 829, 829, 829, 829, 829, 829, 829, 829, 829, 829, 829, 829,
    829, 830, 830, 830, 830, 830, 830, 830, 830, 830, 830, 830, 830, 830, 830, 830, 830, 830, 831, 831,
    831, 831, 831, 831, 831, 831, 831, 831, 831, 831, 831, 831, 831, 831, 831, 832, 832, 832, 832, 832,
    832, 832, 832, 832, 832, 832, 832, 832, 832, 832, 832, 832, 833, 833, 833, 833, 833, 833, 833, 833,
    833, 833, 833, 833, 833, 833, 833, 833, 833, 834, 834, 834, 834, 834, 834, 834, 834, 834, 834, 834,
    834, 834, 834, 834, 834, 834, 835, 835, 835, 835, 835, 835, 835, 835, 835, 835, 835, 835, 835, 835,
    835, 835, 835, 836, 836, 836, 836, 836, 836, 836, 836, 836, 836, 836, 836, 836, 836, 836, 836, 837,
    837, 837, 837, 837, 837, 837, 837, 837, 837, 837, 837, 837, 837, 837, 837, 837, 838, 838, 838, 838,
    838, 838, 838, 838, 838, 838, 838, 838, 838, 838, 838, 838, 838, 839, 839, 839, 839, 839, 839, 839,
    839, 839, 839, 839, 839, 839, 839, 839, 839, 839, 839, 840, 840, 840, 840, 840, 840, 840, 840, 840,
    840, 840, 840, 840, 840, 840, 840, 840, 841, 841, 841, 841, 841, 841, 841, 841, 841, 841, 841, 841,
    841, 841, 841, 841, 841, 842, 842, 842, 842, 842, 842, 842, 842, 842, 842, 842, 842, 842, 842, 842,
    842, 842, 843, 843, 843, 843, 843, 843, 843, 843, 843, 843, 843, 843, 843, 843, 843, 843, 843, 844,
    844, 844, 844, 844, 844, 844, 844, 844, 844, 844, 844, 844, 844, 844, 844, 844, 845, 845, 845, 845,
    845, 845, 845, 845, 845, 845, 845, 845, 845, 845, 845, 845, 845, 846, 846, 846, 846, 846, 846, 846,
    846, 846, 846, 846, 846, 846, 846, 846, 846, 846, 846, 847, 847, 847, 847, 847, 847, 847, 847, 847,
    847, 847, 847, 847, 847, 847, 847, 847, 848, 848, 848, 848, 848, 848, 848, 848, 848, 848, 848, 848,
    848, 848, 848, 848, 848, 849, 849, 849, 849, 849, 849, 849, 849, 849, 849, 849, 849, 849, 849, 849,
    849, 849, 850, 850, 850, 850, 850, 850, 850, 850, 850, 850, 850, 850, 850, 850, 850, 850, 850, 850,
    851, 851, 851, 851, 851, 851, 851, 851, 851, 851, 851, 851, 851, 851, 851, 851, 851, 852, 852, 852,
    852, 852, 852, 852, 852, 852, 852, 852, 852, 852, 852, 852, 852, 852, 852, 853, 853, 853, 853, 853,
    853, 853, 853, 853, 853, 853, 853, 853, 853, 853, 853, 853, 854, 854, 854, 854, 854, 854, 854, 854,
    854, 854, 854, 854, 854, 854, 854, 854, 854, 855, 855, 855, 855, 855, 855, 855, 855, 855, 855, 855,
    855, 855, 855, 855, 855, 855, 855, 856, 856, 856, 856, 856, 856, 856, 856, 856, 856, 856, 856, 856,
    856, 856, 856, 856, 857, 857, 857, 857, 857, 857, 857, 857, 857, 857, 857, 857, 857, 857, 857, 857,
    857, 857, 858, 858, 858, 858, 858, 858, 858, 858, 858, 858, 858, 858, 858, 858, 858, 858, 858, 858,
    859, 859, 859, 859, 859, 859, 859, 859, 859, 859, 859, 859, 859, 859, 859, 859, 859, 860, 860, 860,
    860, 860, 860, 860, 860, 860, 860, 860, 860, 860, 860, 860, 860, 860, 860, 861, 861, 861, 861, 861,
    861, 861, 861, 861, 861, 861, 861, 861, 861, 861, 861, 861, 862, 862, 862, 862, 862, 862, 862, 862,
    862, 862, 862, 862, 862, 862, 862, 862, 862, 862, 863, 863, 863, 863, 863, 863, 863, 863, 863, 863,
    863, 863, 863, 863, 863, 863, 863, 863, 864, 864, 864, 864, 864, 864, 864, 864, 864, 864, 864, 864,
    864, 864, 864, 864, 864, 865, 865, 865, 865, 865, 865, 865, 865, 865, 865, 865, 865, 865, 865, 865,
    865, 865, 865, 866, 866, 866, 866, 866, 866, 866, 866, 866, 866, 866, 866, 866, 866, 866, 866, 866,
    866, 867, 867, 867, 867, 867, 867, 867, 867, 867, 867, 867, 867, 867, 867, 867, 867, 867, 867, 868,
    868, 868, 868, 868, 868, 868, 868, 868, 868, 868, 868, 868, 868, 868, 868, 868, 868, 869, 869, 869,
    869, 869, 869, 869, 869, 869, 869, 869, 869, 869, 869, 869, 869, 869, 870, 870, 870, 870, 870, 870,
    870, 870, 870, 870, 870, 870, 870, 870, 870, 870, 870, 870, 871, 871, 871, 871, 871, 871, 871, 871,
    871, 871, 871, 871, 871, 871, 871, 871, 871, 871, 872, 872, 872, 872, 872, 872, 872, 872, 872, 872,
    872, 872, 872, 872, 872, 872, 872, 872, 873, 873, 873, 873, 873, 873, 873, 873, 873, 873, 873, 873,
    873, 873, 873, 873, 873, 873, 874, 874, 874, 874, 874, 874, 874, 874, 874, 874, 874, 874, 874, 874,
    874, 874, 874, 874, 875, 875, 875, 875, 875, 875, 875, 875, 875, 875, 875, 875, 875, 875, 875, 875,
    875, 875, 876, 876, 876, 876, 876, 876, 876, 876, 876, 876, 876, 876, 876, 876, 876, 876, 876, 876,
    877, 877, 877, 877, 877, 877, 877, 877, 877, 877, 877, 877, 877, 877, 877, 877, 877, 877, 878, 878,
    878, 878, 878, 878, 878, 878, 878, 878, 878, 878, 878, 878, 878, 878, 878, 878, 879, 879, 879, 879,
    879, 879, 879, 879, 879, 879, 879, 879, 879, 879, 879, 879, 879, 879, 880, 880, 880, 880, 880, 880,
    880, 880, 880, 880, 880, 880, 880, 880, 880, 880, 880, 880, 880, 881, 881, 881, 881, 881, 881, 881,
    881, 881, 881, 881, 881, 881, 881, 881, 881, 881, 881, 882, 882, 882, 882, 882, 882, 882, 882, 882,
    882, 882, 882, 882, 882, 882, 882, 882, 882, 883, 883, 883, 883, 883, 883, 883, 883, 883, 883, 883,
    883, 883, 883, 883, 883, 883, 883, 884, 884, 884, 884, 884, 884, 884, 884, 884, 884, 884, 884, 884,
    884, 884, 884, 884, 884, 885, 885, 885, 885, 885, 885, 885, 885, 885, 885, 885, 885, 885, 885, 885,
    885, 885, 885, 885, 886, 886, 886, 886, 886, 886, 886, 886, 886, 886, 886, 886, 886, 886, 886, 886,
    886, 886, 887, 887, 887, 887, 887, 887, 887, 887, 887, 887, 887, 887, 887, 887, 887, 887, 887, 887,
    888, 888, 888, 888, 888, 888, 888, 888, 888, 888, 888, 888, 888, 888, 888, 888, 888, 888, 888, 889,
    889, 889, 889, 889, 889, 889, 889, 889, 889, 889, 889, 889, 889, 889, 889, 889, 889, 890, 890, 890,
    890, 890, 890, 890, 890, 890, 890, 890, 890, 890, 890, 890, 890, 890, 890, 890, 891, 891, 891, 891,
    891, 891, 891, 891, 891, 891, 891, 891, 891, 891, 891, 891, 891, 891, 892, 892, 892, 892, 892, 892,
    892, 892, 892, 892, 892, 892, 892, 892, 892, 892, 892, 892, 893, 893, 893, 893, 893, 893, 893, 893,
    893, 893, 893, 893, 893, 893, 893, 893, 893, 893, 893, 894, 894, 894, 894, 894, 894, 894, 894, 894,
    894, 894, 894, 894, 894, 894, 894, 894, 894, 894, 895, 895, 895, 895, 895, 895, 895, 895, 895, 895,
    895, 895, 895, 895, 895, 895, 895, 895, 896, 896, 896, 896, 896, 896, 896, 896, 896, 896, 896, 896,
    896, 896, 896, 896, 896, 896, 896, 897, 897, 897, 897, 897, 897, 897, 897, 897, 897, 897, 897, 897,
    897, 897, 897, 897, 897, 898, 898, 898, 898, 898, 898, 898, 898, 898, 898, 898, 898, 898, 898, 898,
    898, 898, 898, 898, 899, 899, 899, 899, 899, 899, 899, 899, 899, 899, 899, 899, 899, 899, 899, 899,
    899, 899, 899, 900, 900, 900, 900, 900, 900, 900, 900, 900, 900, 900, 900, 900, 900, 900, 900, 900,
    900, 901, 901, 901, 901, 901, 901, 901, 901, 901, 901, 901, 901, 901, 901, 901, 901, 901, 901, 901,
    902, 902, 902, 902, 902, 902, 902, 902, 902, 902, 902, 902, 902, 902, 902, 902, 902, 902, 902, 903,
    903, 903, 903, 903, 903, 903, 903, 903, 903, 903, 903, 903, 903, 903, 903, 903, 903, 903, 904, 904,
    904, 904, 904, 904, 904, 904, 904, 904, 904, 904, 904, 904, 904, 904, 904, 904, 905, 905, 905, 905,
    905, 905, 905, 905, 905, 905, 905, 905, 905, 905, 905, 905, 905, 905, 905, 906, 906, 906, 906, 906,
    906, 906, 906, 906, 906, 906, 906, 906, 906, 906, 906, 906, 906, 906, 907, 907, 907, 907, 907, 907,
    907, 907, 907, 907, 907, 907, 907, 907, 907, 907, 907, 907, 907, 908, 908, 908, 908, 908, 908, 908,
    908, 908, 908, 908, 908, 908, 908, 908, 908, 908, 908, 908, 909, 909, 909, 909, 909, 909, 909, 909,
    909, 909, 909, 909, 909, 909, 909, 909, 909, 909, 909, 910, 910, 910, 910, 910, 910, 910, 910, 910,
    910, 910, 910, 910, 910, 910, 910, 910, 910, 910, 911, 911, 911, 911, 911, 911, 911, 911, 911, 911,
    911, 911, 911, 911, 911, 911, 911, 911, 911, 912, 912, 912, 912, 912, 912, 912, 912, 912, 912, 912,
    912, 912, 912, 912, 912, 912, 912, 912, 913, 913, 913, 913, 913, 913, 913, 913, 913, 913, 913, 913,
    913, 913, 913, 913, 913, 913, 913, 914, 914, 914, 914, 914, 914, 914, 914, 914, 914, 914, 914, 914,
    914, 914, 914, 914, 914, 914, 915, 915, 915, 915, 915, 915, 915, 915, 915, 915, 915, 915, 915, 915,
    915, 915, 915, 915, 915, 916, 916, 916, 916, 916, 916, 916, 916, 916, 916, 916, 916, 916, 916, 916,
    916, 916, 916, 916, 917, 917, 917, 917, 917, 917, 917, 917, 917, 917, 917, 917, 917, 917, 917, 917,
    917, 917, 917, 918, 918, 918, 918, 918, 918, 918, 918, 918, 918, 918, 918, 918, 918, 918, 918, 918,
    918, 918, 919, 919, 919, 919, 919, 919, 919, 919, 919, 919, 919, 919, 919, 919, 919, 919, 919, 919,
    919, 919, 920, 920, 920, 920, 920, 920, 920, 920, 920, 920, 920, 920, 920, 920, 920, 920, 920, 920,
    920, 921, 921, 921, 921, 921, 921, 921, 921, 921, 921, 921, 921, 921, 921, 921, 921, 921, 921, 921,
    922, 922, 922, 922, 922, 922, 922, 922, 922, 922, 922, 922, 922, 922, 922, 922, 922, 922, 922, 922,
    923, 923, 923, 923, 923, 923, 923, 923, 923, 923, 923, 923, 923, 923, 923, 923, 923, 923, 923, 924,
    924, 924, 924, 924, 924, 924, 924, 924, 924, 924, 924, 924, 924, 924, 924, 924, 924, 924, 925, 925,
    925, 925, 925, 925, 925, 925, 925, 925, 925, 925, 925, 925, 925, 925, 925, 925, 925, 925, 926, 926,
    926, 926, 926, 926, 926, 926, 926, 926, 926, 926, 926, 926, 926, 926, 926, 926, 926, 927, 927, 927,
    927, 927, 927, 927, 927, 927, 927, 927, 927, 927, 927, 927, 927, 927, 927, 927, 928, 928, 928, 928,
    928, 928, 928, 928, 928, 928, 928, 928, 928, 928, 928, 928, 928, 928, 928, 928, 929, 929, 929, 929,
    929, 929, 929, 929, 929, 929, 929, 929, 929, 929, 929, 929, 929, 929, 929, 930, 930, 930, 930, 930,
    930, 930, 930, 930, 930, 930, 930, 930, 930, 930, 930, 930, 930, 930, 930, 931, 931, 931, 931, 931,
    931, 931, 931, 931, 931, 931, 931, 931, 931, 931, 931, 931, 931, 931, 932, 932, 932, 932, 932, 932,
    932, 932, 932, 932, 932, 932, 932, 932, 932, 932, 932, 932, 932, 932, 933, 933, 933, 933, 933, 933,
    933, 933, 933, 933, 933, 933, 933, 933, 933, 933, 933, 933, 933, 933, 934, 934, 934, 934, 934, 934,
    934, 934, 934, 934, 934, 934, 934, 934, 934, 934, 934, 934, 934, 935, 935, 935, 935, 935, 935, 935,
    935, 935, 935, 935, 935, 935, 935, 935, 935, 935, 935, 935, 935, 936, 936, 936, 936, 936, 936, 936,
    936, 936, 936, 936, 936, 936, 936, 936, 936, 936, 936, 936, 936, 937, 937, 937, 937, 937, 937, 937,
    937, 937, 937, 937, 937, 937, 937, 937, 937, 937, 937, 937, 938, 938, 938, 938, 938, 938, 938, 938,
    938, 938, 938, 938, 938, 938, 938, 938, 938, 938, 938, 938, 939, 939, 939, 939, 939, 939, 939, 939,
    939, 939, 939, 939, 939, 939, 939, 939, 939, 939, 939, 939, 940, 940, 940, 940, 940, 940, 940, 940,
    940, 940, 940, 940, 940, 940, 940, 940, 940, 940, 940, 940, 941, 941, 941, 941, 941, 941, 941, 941,
    941, 941, 941, 941, 941, 941, 941, 941, 941, 941, 941, 942, 942, 942, 942, 942, 942, 942, 942, 942,
    942, 942, 942, 942, 942, 942, 942, 942, 942, 942, 942, 943, 943, 943, 943, 943, 943, 943, 943, 943,
    943, 943, 943, 943, 943, 943, 943, 943, 943, 943, 943, 944, 944, 944, 944, 944, 944, 944, 944, 944,
    944, 944, 944, 944, 944, 944, 944, 944, 944, 944, 944, 945, 945, 945, 945, 945, 945, 945, 945, 945,
    945, 945, 945, 945, 945, 945, 945, 945, 945, 945, 945, 946, 946, 946, 946, 946, 946, 946, 946, 946,
    946, 946, 946, 946, 946, 946, 946, 946, 946, 946, 946, 947, 947, 947, 947, 947, 947, 947, 947, 947,
    947, 947, 947, 947, 947, 947, 947, 947, 947, 947, 947, 948, 948, 948, 948, 948, 948, 948, 948, 948,
    948, 948, 948, 948, 948, 948, 948, 948, 948, 948, 948, 949, 949, 949, 949, 949, 949, 949, 949, 949,
    949, 949, 949, 949, 949, 949, 949, 949, 949, 949, 949, 950, 950, 950, 950, 950, 950, 950, 950, 950,
    950, 950, 950, 950, 950, 950, 950, 950, 950, 950, 950, 951, 951, 951, 951, 951, 951, 951, 951, 951,
    951, 951, 951, 951, 951, 951, 951, 951, 951, 951, 951, 952, 952, 952, 952, 952, 952, 952, 952, 952,
    952, 952, 952, 952, 952, 952, 952, 952, 952, 952, 952, 953, 953, 953, 953, 953, 953, 953, 953, 953,
    953, 953, 953, 953, 953, 953, 953, 953, 953, 953, 953, 953, 954, 954, 954, 954, 954, 954, 954, 954,
    954, 954, 954, 954, 954, 954, 954, 954, 954, 954, 954, 954, 955, 955, 955, 955, 955, 955, 955, 955,
    955, 955, 955, 955, 955, 955, 955, 955, 955, 955, 955, 955, 956, 956, 956, 956, 956, 956, 956, 956,
    956, 956, 956, 956, 956, 956, 956, 956, 956, 956, 956, 956, 957, 957, 957, 957, 957, 957, 957, 957,
    957, 957, 957, 957, 957, 957, 957, 957, 957, 957, 957, 957, 958, 958, 958, 958, 958, 958, 958, 958,
    958, 958, 958, 958, 958, 958, 958, 958, 958, 958, 958, 958, 958, 959, 959, 959, 959, 959, 959, 959,
    959, 959, 959, 959, 959, 959, 959, 959, 959, 959, 959, 959, 959, 960, 960, 960, 960, 960, 960, 960,
    960, 960, 960, 960, 960, 960, 960, 960, 960, 960, 960, 960, 960, 961, 961, 961, 961, 961, 961, 961,
    961, 961, 961, 961, 961, 961, 961, 961, 961, 961, 961, 961, 961, 961, 962, 962, 962, 962, 962, 962,
    962, 962, 962, 962, 962, 962, 962, 962, 962, 962, 962, 962, 962, 962, 963, 963, 963, 963, 963, 963,
    963, 963, 963, 963, 963, 963, 963, 963, 963, 963, 963, 963, 963, 963, 963, 964, 964, 964, 964, 964,
    964, 964, 964, 964, 964, 964, 964, 964, 964, 964, 964, 964, 964, 964, 964, 965, 965, 965, 965, 965,
    965, 965, 965, 965, 965, 965, 965, 965, 965, 965, 965, 965, 965, 965, 965, 965, 966, 966, 966, 966,
    966, 966, 966, 966, 966, 966, 966, 966, 966, 966, 966, 966, 966, 966, 966, 966, 967, 967, 967, 967,
    967, 967, 967, 967, 967, 967, 967, 967, 967, 967, 967, 967, 967, 967, 967, 967, 967, 968, 968, 968,
    968, 968, 968, 968, 968, 968, 968, 968, 968, 968, 968, 968, 968, 968, 968, 968, 968, 969, 969, 969,
    969, 969, 969, 969, 969, 969, 969, 969, 969, 969, 969, 969, 969, 969, 969, 969, 969, 969, 970, 970,
    970, 970, 970, 970, 970, 970, 970, 970, 970, 970, 970, 970, 970, 970, 970, 970, 970, 970, 970, 971,
    971, 971, 971, 971, 971, 971, 971, 971, 971, 971, 971, 971, 971, 971, 971, 971, 971, 971, 971, 972,
    972, 972, 972, 972, 972, 972, 972, 972, 972, 972, 972, 972, 972, 972, 972, 972, 972, 972, 972, 972,
    973, 973, 973, 973, 973, 973, 973, 973, 973, 973, 973, 973, 973, 973, 973, 973, 973, 973, 973, 973,
    973, 974, 974, 974, 974, 974, 974, 974, 974, 974, 974, 974, 974, 974, 974, 974, 974, 974, 974, 974,
    974, 975, 975, 975, 975, 975, 975, 975, 975, 975, 975, 975, 975, 975, 975, 975, 975, 975, 975, 975,
    975, 975, 976, 976, 976, 976, 976, 976, 976, 976, 976, 976, 976, 976, 976, 976, 976, 976, 976, 976,
    976, 976, 976, 977, 977, 977, 977, 977, 977, 977, 977, 977, 977, 977, 977, 977, 977, 977, 977, 977,
    977, 977, 977, 977, 978, 978, 978, 978, 978, 978, 978, 978, 978, 978, 978, 978, 978, 978, 978, 978,
    978, 978, 978, 978, 978, 979, 979, 979, 979, 979, 979, 979, 979, 979, 979, 979, 979, 979, 979, 979,
    979, 979, 979, 979, 979, 979, 980, 980, 980, 980, 980, 980, 980, 980, 980, 980, 980, 980, 980, 980,
    980, 980, 980, 980, 980, 980, 981, 981, 981, 981, 981, 981, 981, 981, 981, 981, 981, 981, 981, 981,
    981, 981, 981, 981, 981, 981, 981, 982, 982, 982, 982, 982, 982, 982, 982, 982, 982, 982, 982, 982,
    982, 982, 982, 982, 982, 982, 982, 982, 983, 983, 983, 983, 983, 983, 983, 983, 983, 983, 983, 983,
    983, 983, 983, 983, 983, 983, 983, 983, 983, 984, 984, 984, 984, 984, 984, 984, 984, 984, 984, 984,
    984, 984, 984, 984, 984, 984, 984, 984, 984, 984, 985, 985, 985, 985, 985, 985, 985, 985, 985, 985,
    985, 985, 985, 985, 985, 985, 985, 985, 985, 985, 985, 985, 986, 986, 986, 986, 986, 986, 986, 986,
    986, 986, 986, 986, 986, 986, 986, 986, 986, 986, 986, 986, 986, 987, 987, 987, 987, 987, 987, 987,
    987, 987, 987, 987, 987, 987, 987, 987, 987, 987, 987, 987, 987, 987, 988, 988, 988, 988, 988, 988,
    988, 988, 988, 988, 988, 988, 988, 988, 988, 988, 988, 988, 988, 988, 988, 989, 989, 989, 989, 989,
    989, 989, 989, 989, 989, 989, 989, 989, 989, 989, 989, 989, 989, 989, 989, 989, 990, 990, 990, 990,
    990, 990, 990, 990, 990, 990, 990, 990, 990, 990, 990, 990, 990, 990, 990, 990, 990, 991, 991, 991,
    991, 991, 991, 991, 991, 991, 991, 991, 991, 991, 991, 991, 991, 991, 991, 991, 991, 991, 992, 992,
    992, 992, 992, 992, 992, 992, 992, 992, 992, 992, 992, 992, 992, 992, 992, 992, 992, 992, 992, 992,
    993, 993, 993, 993, 993, 993, 993, 993, 993, 993, 993, 993, 993, 993, 993, 993, 993, 993, 993, 993,
    993, 994, 994, 994, 994, 994, 994, 994, 994, 994, 994, 994, 994, 994, 994, 994, 994, 994, 994, 994,
    994, 994, 995, 995, 995, 995, 995, 995, 995, 995, 995, 995, 995, 995, 995, 995, 995, 995, 995, 995,
    995, 995, 995, 995, 996, 996, 996, 996, 996, 996, 996, 996, 996, 996, 996, 996, 996, 996, 996, 996,
    996, 996, 996, 996, 996, 997, 997, 997, 997, 997, 997, 997, 997, 997, 997, 997, 997, 997, 997, 997,
    997, 997, 997, 997, 997, 997, 998, 998, 998, 998, 998, 998, 998, 998, 998, 998, 998, 998, 998, 998,
    998, 998, 998, 998, 998, 998, 998, 998, 999, 999, 999, 999, 999, 999, 999, 999, 999, 999, 999, 999,
    999, 999, 999, 999, 999, 999, 999, 999, 999, 1000, 1000, 1000, 1000, 1000, 1000, 1000, 1000, 1000, 1000, 1000,
    1000, 1000, 1000, 1000, 1000, 1000, 1000, 1000, 1000, 1000, 1000, 1001, 1001, 1001, 1001, 1001, 1001, 1001, 1001, 1001,
    1001, 1001, 1001, 1001, 1001, 1001, 1001, 1001, 1001, 1001, 1001, 1001, 1002, 1002, 1002, 1002, 1002, 1002, 1002, 1002,
    1002, 1002, 1002, 1002, 1002, 1002, 1002, 1002, 1002, 1002, 1002, 1002, 1002, 1002, 1003, 1003, 1003, 1003, 1003, 1003,
    1003, 1003, 1003, 1003, 1003, 1003, 1003, 1003, 1003, 1003, 1003, 1003, 1003, 1003, 1003, 1004, 1004, 1004, 1004, 1004,
    1004, 1004, 1004, 1004, 1004, 1004, 1004, 1004, 1004, 1004, 1004, 1004, 1004, 1004, 1004, 1004, 1004, 1005, 1005, 1005,
    1005, 1005, 1005, 1005, 1005, 1005, 1005, 1005, 1005, 1005, 1005, 1005, 1005, 1005, 1005, 1005, 1005, 1005, 1005, 1006,
    1006, 1006, 1006, 1006, 1006, 1006, 1006, 1006, 1006, 1006, 1006, 1006, 1006, 1006, 1006, 1006, 1006, 1006, 1006, 1006,
    1007, 1007, 1007, 1007, 1007, 1007, 1007, 1007, 1007, 1007, 1007, 1007, 1007, 1007, 1007, 1007, 1007, 1007, 1007, 1007,
    1007, 1007, 1008, 1008, 1008, 1008, 1008, 1008, 1008, 1008, 1008, 1008, 1008, 1008, 1008, 1008, 1008, 1008, 1008, 1008,
    1008, 1008, 1008, 1008, 1009, 1009, 1009, 1009, 1009, 1009, 1009, 1009, 1009, 1009, 1009, 1009, 1009, 1009, 1009, 1009,
    1009, 1009, 1009, 1009, 1009, 1010, 1010, 1010, 1010, 1010, 1010, 1010, 1010, 1010, 1010, 1010, 1010, 1010, 1010, 1010,
    1010, 1010, 1010, 1010, 1010, 1010, 1010, 1011, 1011, 1011, 1011, 1011, 1011, 1011, 1011, 1011, 1011, 1011, 1011, 1011,
    1011, 1011, 1011, 1011, 1011, 1011, 1011, 1011, 1011, 1012, 1012, 1012, 1012, 1012, 1012, 1012, 1012, 1012, 1012, 1012,
    1012, 1012, 1012, 1012, 1012, 1012, 1012, 1012, 1012, 1012, 1012, 1013, 1013, 1013, 1013, 1013, 1013, 1013, 1013, 1013,
    1013, 1013, 1013, 1013, 1013, 1013, 1013, 1013, 1013, 1013, 1013, 1013, 1013, 1014, 1014, 1014, 1014, 1014, 1014, 1014,
    1014, 1014, 1014, 1014, 1014, 1014, 1014, 1014, 1014, 1014, 1014, 1014, 1014, 1014, 1014, 1015, 1015, 1015, 1015, 1015,
    1015, 1015, 1015, 1015, 1015, 1015, 1015, 1015, 1015, 1015, 1015, 1015, 1015, 1015, 1015, 1015, 1015, 1016, 1016, 1016,
    1016, 1016, 1016, 1016, 1016, 1016, 1016, 1016, 1016, 1016, 1016, 1016, 1016, 1016, 1016, 1016, 1016, 1016, 1017, 1017,
    1017, 1017, 1017, 1017, 1017, 1017, 1017, 1017, 1017, 1017, 1017, 1017, 1017, 1017, 1017, 1017, 1017, 1017, 1017, 1017,
    1018, 1018, 1018, 1018, 1018, 1018, 1018, 1018, 1018, 1018, 1018, 1018, 1018, 1018, 1018, 1018, 1018, 1018, 1018, 1018,
    1018, 1018, 1019, 1019, 1019, 1019, 1019, 1019, 1019, 1019, 1019, 1019, 1019, 1019, 1019, 1019, 1019, 1019, 1019, 1019,
    1019, 1019, 1019, 1019, 1020
  >>

\* ccf(x) for one sample 0 <= x <= FPOne.  A ColorConverter is named by a
\* string; "nil" is the nil converter and is never applied.
ApplyCCF(ccf, x) ==
  CASE ccf = "SRGBToLinear" -> SRGBToLinearTable[x + 1]
    [] ccf = "LinearTosRGB" -> LinearTosRGBTable[x + 1]

\* ------------------------------------------------------------ rectangles
Rect(x0, y0, x1, y1) == [Min |-> [X |-> x0, Y |-> y0], Max |-> [X |-> x1, Y |-> y1]]
Dx(r) == r.Max.X - r.Min.X
Dy(r) == r.Max.Y - r.Min.Y
ZR == Rect(0, 0, 0, 0)

\* ---------------------------------------------------------------- images
\* Sample contents are followed for images of at most PixCap samples and at
\* most DimCap columns and rows that were computed from followed images; a
\* larger image keeps its shape (Rect, Stride) and has tracked = FALSE and no
\* Pix.
PixCap == 10000
DimCap == 400
\* Whether a w x h image of bpp samples a pixel is small enough to follow.
Small(w, h, bpp) == w <= DimCap /\ h <= DimCap /\ bpp * w * h <= PixCap

\* A slice is a function from its indices 0..(len - 1) to its elements;
\* Slice(f) is the function f written out element by element.
Slice(f) == f @@ << >>

\* make([]T, n): n zero samples, indexed from 0.
MakePix(n, tracked) == IF tracked THEN Slice([i \in 0..(n - 1) |-> 0]) ELSE << >>
\* An image of w x h pixels, 4 float32 samples each, all zero.
MakeFPImage(w, h, tracked) ==
  LET t == tracked /\ Small(w, h, 4)
  IN  [Pix |-> MakePix((w * 4) * h, t), Stride |-> w * 4, Rect |-> Rect(0, 0, w, h),
       tracked |-> t]

\* new(FPImage): nil Pix, zero Stride and Rect.
ZeroFPImage == [Pix |-> << >>, Stride |-> 0, Rect |-> ZR, tracked |-> TRUE]
\* A heap cell holding no object.
NoImage == [Pix |-> << >>, Stride |-> -1, Rect |-> ZR, tracked |-> FALSE]

\* image.NewNRGBA(r), image.NewRGBA(r): 4 bytes a pixel; NewNRGBA64, NewRGBA64:
\* 8 bytes; NewGray: 1; NewGray16: 2.  Rect is r itself.
BytesPerPixel(type) ==
  CASE type \in {"NRGBA", "RGBA"} -> 4
    [] type \in {"NRGBA64", "RGBA64"} -> 8
    [] type = "Gray" -> 1
    [] type = "Gray16" -> 2
NewImage(type, r, tracked) ==
  LET t == tracked /\ Small(Dx(r), Dy(r), BytesPerPixel(type))
  IN  [type |-> type, Rect |-> r, Stride |-> BytesPerPixel(type) * Dx(r),
       tracked |-> t, Pix |-> MakePix(BytesPerPixel(type) * Dx(r) * Dy(r), t)]

\* The source images the model draws from: an 8-bit NRGBA or Gray image with
\* its bytes, or (bytes |-> << >>) a large image of which only the shape and
\* whether some pixel is not opaque is known.
SrcNRGBA(r, bytes) ==
  [type |-> "NRGBA", Rect |-> r, Stride |-> 4 * Dx(r), tracked |-> TRUE,
   Pix |-> Slice([i \in 0..(Len(bytes) - 1) |-> bytes[i + 1]]), someTransparent |-> FALSE]
SrcGray(r, bytes) ==
  [type |-> "Gray", Rect |-> r, Stride |-> Dx(r), tracked |-> TRUE,
   Pix |-> Slice([i \in 0..(Len(bytes) - 1) |-> bytes[i + 1]]), someTransparent |-> FALSE]
SrcLarge(type, r, someTransparent) ==
  [type |-> type, Rect |-> r, Stride |-> BytesPerPixel(type) * Dx(r), tracked |-> FALSE,
   Pix |-> << >>, someTransparent |-> someTransparent]

\* ------------------------------------------------------------ FPObject
\* The source images (fp.srcImage is an index into this tuple, 0 is nil).
SrcImages ==
  << SrcNRGBA(Rect(0, 0, 1, 2), << 255, 0, 0, 255,   0, 0, 255, 128 >>),
     SrcNRGBA(Rect(0, 0, 2, 1), << 255, 128, 0, 255,   0, 64, 255, 255 >>),
     SrcGray(Rect(0, 0, 2, 2), << 0, 255, 128, 64 >>),
     SrcLarge("NRGBA", Rect(0, 0, 256999, 2089), TRUE),
     SrcLarge("Gray", Rect(0, 0, 1, 536870912), FALSE),
     SrcLarge("NRGBA", Rect(0, 0, 3, 16384), FALSE),
     SrcNRGBA(Rect(0, 0, 1, 3), << 0, 0, 0, 0,   255, 255, 255, 255,   10, 20, 30, 128 >>) >>

\* blurGetter is 0 for nil, or the blur it returns as a numerator over CoordDen.
\* new(FPObject) followed by SetSourceImage(srcImg) and SetFilter(filter):
\* fpresize.New, and the one filter of the model installed.
New(srcImg, filter) ==
  [srcImage |-> srcImg,
   srcBounds |-> SrcImages[srcImg].Rect,
   dstBounds |-> ZR,
   srcW |-> Dx(SrcImages[srcImg].Rect),
   srcH |-> Dy(SrcImages[srcImg].Rect),
   dstCanvasW |-> 0, dstCanvasH |-> 0,
   dstOffsetX |-> 0, dstOffsetY |-> 0,
   dstTrueW |-> 0, dstTrueH |-> 0,
   srcFPImage |-> 0,
   srcHasTransparency |-> FALSE, srcHasColor |-> FALSE,
   mustProcessTransparency |-> FALSE, mustProcessColor |-> FALSE,
   filterGetter |-> filter,
   blurGetter |-> 0,
   inputCCFSet |-> FALSE, inputCCF |-> "nil", inputCCFFlags |-> 0,
   outputCCFSet |-> FALSE, outputCCF |-> "nil", outputCCFFlags |-> 0,
   virtualPixels |-> VirtualPixelsNone,
   numWorkers |-> 0, maxWorkers |-> 0,
   channelInfo |-> << FALSE, FALSE, FALSE, FALSE >>]

\* SetFilter(fpf) and SetBlur(blur): the getters return fpf and blur.
SetFilter(f, filter) == [f EXCEPT !.filterGetter = filter]
SetBlur(f, blur) == [f EXCEPT !.blurGetter = blur]
SetInputColorConverter(f, ccf) == [f EXCEPT !.inputCCF = ccf, !.inputCCFSet = TRUE]
SetOutputColorConverter(f, ccf) == [f EXCEPT !.outputCCF = ccf, !.outputCCFSet = TRUE]
SetInputColorConverterFlags(f, flags) == [f EXCEPT !.inputCCFFlags = flags]
SetOutputColorConverterFlags(f, flags) == [f EXCEPT !.outputCCFFlags = flags]
SetVirtualPixels(f, n) == [f EXCEPT !.virtualPixels = n]
\* HasTransparency() and HasColor().
HasTransparency(f) == f.mustProcessTransparency
HasColor(f) == f.mustProcessColor
SetMaxWorkerThreads(f, n) == [f EXCEPT !.maxWorkers = n]

\* setTargetCanvasBounds without the two adjustments of fp.dstBounds.Max.
setTargetCanvasBounds_AsGiven(f, dstBounds) ==
  [f EXCEPT !.dstBounds = dstBounds,
            !.dstCanvasW = Dx(dstBounds), !.dstCanvasH = Dy(dstBounds),
            !.dstOffsetX = 0, !.dstOffsetY = 0,
            !.dstTrueW = CoordDen * Dx(dstBounds), !.dstTrueH = CoordDen * Dy(dstBounds)]
setTargetCanvasBounds(f, dstBounds) ==
  LET maxX == IF dstBounds.Max.X < dstBounds.Min.X + 1
              THEN dstBounds.Min.X + 1 ELSE dstBounds.Max.X
      maxY == IF dstBounds.Max.Y < dstBounds.Min.Y + 1
              THEN dstBounds.Min.Y + 1 ELSE dstBounds.Max.Y
      b == [dstBounds EXCEPT !.Max.X = maxX, !.Max.Y = maxY]
  IN  [f EXCEPT !.dstBounds = b,
                !.dstCanvasW = Dx(b), !.dstCanvasH = Dy(b),
                !.dstOffsetX = 0, !.dstOffsetY = 0,
                !.dstTrueW = CoordDen * Dx(b), !.dstTrueH = CoordDen * Dy(b)]

\* SetTargetBounds without the assignment to fp.virtualPixels.
SetTargetBounds_KeepsMode(f, dstBounds) == setTargetCanvasBounds(f, dstBounds)
SetTargetBounds(f, dstBounds) ==
  [setTargetCanvasBounds(f, dstBounds) EXCEPT !.virtualPixels = VirtualPixelsNone]

\* x1, y1, x2, y2 are numerators over CoordDen.
SetTargetBoundsAdvanced(f, dstBounds, x1, y1, x2, y2) ==
  LET g == setTargetCanvasBounds(f, dstBounds)
  IN  [g EXCEPT !.dstOffsetX = x1 - CoordDen * g.dstBounds.Min.X,
                !.dstOffsetY = y1 - CoordDen * g.dstBounds.Min.Y,
                !.dstTrueW = x2 - x1,
                !.dstTrueH = y2 - y1,
                !.virtualPixels = VirtualPixelsTransparent]

\* createWeightList with the virtual samples kept in mode None too.
createWeightList_AlwaysVirtual(f, isVertical) ==
  WeightListFor(IF isVertical THEN f.srcH ELSE f.srcW,
                IF isVertical THEN f.dstCanvasH ELSE f.dstCanvasW,
                IF isVertical THEN f.dstTrueH ELSE f.dstTrueW,
                IF isVertical THEN f.dstOffsetY ELSE f.dstOffsetX,
                IF f.blurGetter = 0 THEN CoordDen ELSE f.blurGetter,
                f.filterGetter,
                VirtualPixelsTransparent)

\* createWeightList(isVertical): the weight list of one dimension of f.
createWeightList(f, isVertical) ==
  WeightListFor(IF isVertical THEN f.srcH ELSE f.srcW,
                IF isVertical THEN f.dstCanvasH ELSE f.dstCanvasW,
                IF isVertical THEN f.dstTrueH ELSE f.dstTrueW,
                IF isVertical THEN f.dstOffsetY ELSE f.dstOffsetX,
                IF f.blurGetter = 0 THEN CoordDen ELSE f.blurGetter,
                f.filterGetter,
                f.virtualPixels)

\* What createWeightList(isVertical) computes on its way: the calls of
\* filter.F per destination sample and the capacity of the list it allocates.
createWeightListCalls(f, isVertical) ==
  FilterCallsFor(IF isVertical THEN f.srcH ELSE f.srcW,
                 IF isVertical THEN f.dstCanvasH ELSE f.dstCanvasW,
                 IF isVertical THEN f.dstTrueH ELSE f.dstTrueW,
                 IF isVertical THEN f.dstOffsetY ELSE f.dstOffsetX,
                 IF f.blurGetter = 0 THEN CoordDen ELSE f.blurGetter,
                 f.filterGetter,
                 f.virtualPixels)

\* ------------------------------------------------------------ resampler
\* wc is the resampleWorkContext [weightList, srcStride, dstStride]; a work item
\* is [lane, srcOff, dstOff]: wi.srcSam = src.Pix[srcOff:], wi.dstSam =
\* dst.Pix[dstOff:], and lane is the value of the coordinator's loop variables
\* when it made the item (col, or 4*row + k).
\* float32 product of a sample and a weight.
MulW(x, w) == IF w[2] > 0 THEN RoundDiv(x * w[1], w[2]) ELSE RoundDiv(-(x * w[1]), -w[2])

\* The destination and source index of weight i of an item, and the value the
\* statement "dstSam[..] += srcSam[..] * weight" computes from the samples.
WeightDstIdx(wc, item, i) == item.dstOff + wc.weightList[i].dstSamIdx * wc.dstStride
WeightSrcIdx(wc, item, i) == item.srcOff + wc.weightList[i].srcSamIdx * wc.srcStride
WeightIsReal(wc, i) == wc.weightList[i].srcSamIdx >= 0
WeightSum(wc, srcPix, dstPix, item, i) ==
  dstPix[WeightDstIdx(wc, item, i)]
    + MulW(srcPix[WeightSrcIdx(wc, item, i)], wc.weightList[i].weight)

\* One pass of resampleWorker's loop body: weight i applied to dstPix.
ResampleWeight(wc, srcPix, dstPix, item, i) ==
  IF WeightIsReal(wc, i)
  THEN [dstPix EXCEPT ![WeightDstIdx(wc, item, i)] = WeightSum(wc, srcPix, dstPix, item, i)]
  ELSE dstPix

\* resampleWorker's loop over the weights lo..hi of the list, in order, for
\* one item. (The first half is computed to a value before the second half
\* starts from it.)
RECURSIVE ResampleItem(_, _, _, _, _, _)
ResampleItem(wc, srcPix, dstPix, item, lo, hi) ==
  IF lo > hi THEN dstPix
  ELSE IF lo = hi THEN ResampleWeight(wc, srcPix, dstPix, item, lo)
  ELSE CHOOSE r \in { ResampleItem(wc, srcPix, q, item, (lo + hi) \div 2 + 1, hi) :
                        q \in { ResampleItem(wc, srcPix, dstPix, item, lo, (lo + hi) \div 2) } } :
         TRUE

\* The items lo..hi of a pass, one after the other.
RECURSIVE ResampleAll(_, _, _, _, _, _)
ResampleAll(wc, srcPix, dstPix, items, lo, hi) ==
  IF lo > hi THEN dstPix
  ELSE IF lo = hi THEN ResampleItem(wc, srcPix, dstPix, items[lo], 1, Len(wc.weightList))
  ELSE CHOOSE r \in { ResampleAll(wc, srcPix, q, items, (lo + hi) \div 2 + 1, hi) :
                        q \in { ResampleAll(wc, srcPix, dstPix, items, lo, (lo + hi) \div 2) } } :
         TRUE

\* The image resizeHeight allocates: as wide as src, dstCanvasH high.
resizeHeightDst(f, src) == MakeFPImage(Dx(src.Rect), f.dstCanvasH, src.tracked)
resizeHeightContext(f, src, dst) ==
  [weightList |-> createWeightList(f, TRUE), srcStride |-> src.Stride, dstStride |-> dst.Stride]
\* The work items resizeHeight sends: one per column of samples to process.
resizeHeightItems(f, src) ==
  LET w == Dx(src.Rect)
  IN  ConcatRange([col \in 0..(4 * w - 1) |->
                     IF f.channelInfo[(col % 4) + 1]
                     THEN << [lane |-> col, srcOff |-> col, dstOff |-> col] >> ELSE << >>],
                  0, 4 * w - 1)

\* The image resizeWidth allocates: dstCanvasW wide, as high as src.
resizeWidthDst(f, src) == MakeFPImage(f.dstCanvasW, Dy(src.Rect), src.tracked)
resizeWidthContext(f, src, dst) ==
  [weightList |-> createWeightList(f, FALSE), srcStride |-> 4, dstStride |-> 4]
\* resizeWidthItems with every item of a row starting at the row's red sample.
resizeWidthItems_NoChannel(f, src, dst) ==
  LET h == Dy(src.Rect)
  IN  ConcatRange([n \in 0..(4 * h - 1) |->
                     IF f.channelInfo[(n % 4) + 1]
                     THEN << [lane |-> n,
                              srcOff |-> (n \div 4) * src.Stride + (n % 4),
                              dstOff |-> (n \div 4) * dst.Stride] >>
                     ELSE << >>],
                  0, 4 * h - 1)
\* The work items resizeWidth sends: one per row and channel to process.
resizeWidthItems(f, src, dst) ==
  LET h == Dy(src.Rect)
  IN  ConcatRange([n \in 0..(4 * h - 1) |->
                     IF f.channelInfo[(n % 4) + 1]
                     THEN << [lane |-> n,
                              srcOff |-> (n \div 4) * src.Stride + (n % 4),
                              dstOff |-> (n \div 4) * dst.Stride + (n % 4)] >>
                     ELSE << >>],
                  0, 4 * h - 1)

\* resizeHeight(src) and resizeWidth(src): the image each returns, once every
\* work item has been resampled.
resampled(wc, src, dst, items) ==
  IF ~dst.tracked THEN dst
  ELSE [dst EXCEPT !.Pix = ResampleAll(wc, src.Pix, dst.Pix, items, 1, Len(items))]
resizeHeight(f, src) ==
  LET Into(dst) == resampled(resizeHeightContext(f, src, dst), src, dst,
                             resizeHeightItems(f, src))
  IN  Into(resizeHeightDst(f, src))
resizeWidth(f, src) ==
  LET Into(dst) == resampled(resizeWidthContext(f, src, dst), src, dst,
                             resizeWidthItems(f, src, dst))
  IN  Into(resizeWidthDst(f, src))

\* -------------------------------------------------------------- ingest
\* makeInputLUT_Xto32(tableSize): whether the table is built (non-nil).
makeInputLUT_Xto32(f, tableSize) ==
  /\ f.inputCCF # "nil"
  /\ (f.inputCCFFlags \div CCFFlagNoCache) % 2 = 0
  /\ (f.inputCCFFlags \div CCFFlagWholePixels) % 2 = 0
  /\ ~(f.srcW * f.srcH < (tableSize \div 4) * f.numWorkers)

\* Entry b of the 8-bit input table: inputCCF applied to float32(b)/255.
inputLUT_8to32(f, b) == ApplyCCF(f.inputCCF, FromUint8(b))

\* float32 product and quotient of two samples.
MulF(x, y) == RoundDiv(x * y, FPOne)
DivF(x, y) == IF y > 0 THEN RoundDiv(x * FPOne, y) ELSE RoundDiv(-(x * FPOne), -y)

\* convertSrcRow_NRGBA for one pixel with bytes sam8 = <<R, G, B, A>>, whose
\* destination samples are still zero: the four samples it leaves there.
convertSrcPixel_NRGBA(f, wc, sam8) ==
  IF sam8[4] = 0 THEN << 0, 0, 0, 0 >>
  ELSE LET a == FromUint8(sam8[4])
           c(k) == IF f.inputCCF # "nil" /\ wc.inputLUT_8to32
                   THEN inputLUT_8to32(f, sam8[k])
                   ELSE IF f.inputCCF # "nil"
                        THEN ApplyCCF(f.inputCCF, FromUint8(sam8[k]))
                        ELSE FromUint8(sam8[k])
           m(k) == IF sam8[4] # 255 THEN MulF(c(k), a) ELSE c(k)
       IN  << m(1), m(2), m(3), a >>

\* convertSrcRow_Gray for one pixel with byte srcPix.
convertSrcPixel_Gray(f, wc, srcPix) ==
  LET d0 == IF f.inputCCF # "nil" /\ wc.inputLUT_8to32
            THEN inputLUT_8to32(f, srcPix)
            ELSE IF f.inputCCF # "nil"
                 THEN ApplyCCF(f.inputCCF, FromUint8(srcPix))
                 ELSE FromUint8(srcPix)
  IN  << d0, d0, d0, FPOne >>

\* convertSrcRow_RGBA for one pixel with bytes sam8 = <<R, G, B, A>>
\* (associated alpha), whose destination samples are still zero.
convertSrcPixel_RGBA(f, wc, sam8) ==
  IF sam8[4] = 0 THEN << 0, 0, 0, 0 >>
  ELSE IF sam8[4] = 255 /\ f.inputCCF # "nil" /\ wc.inputLUT_8to32
  THEN << inputLUT_8to32(f, sam8[1]), inputLUT_8to32(f, sam8[2]),
          inputLUT_8to32(f, sam8[3]), FPOne >>
  ELSE LET a == FromUint8(sam8[4])
           c(k) == IF f.inputCCF = "nil" THEN FromUint8(sam8[k])
                   ELSE IF sam8[4] = 255 THEN ApplyCCF(f.inputCCF, FromUint8(sam8[k]))
                   ELSE MulF(ApplyCCF(f.inputCCF, DivF(FromUint8(sam8[k]), a)), a)
       IN  << c(1), c(2), c(3), a >>

\* convertSrcRow_YCbCr without "dstSam[3] = 1.0": the alpha sample keeps the
\* zero of the freshly made image.
convertSrcPixel_YCbCr_NoAlpha(f, wc, srcRGB) ==
  LET c(k) == IF f.inputCCF # "nil" /\ wc.inputLUT_8to32
              THEN inputLUT_8to32(f, srcRGB[k])
              ELSE IF f.inputCCF # "nil"
                   THEN ApplyCCF(f.inputCCF, FromUint8(srcRGB[k]))
                   ELSE FromUint8(srcRGB[k])
  IN  << c(1), c(2), c(3), 0 >>
\* convertSrcRow_YCbCr for one pixel; srcRGB are the three bytes
\* color.YCbCrToRGB returned for it.
convertSrcPixel_YCbCr(f, wc, srcRGB) ==
  LET c(k) == IF f.inputCCF # "nil" /\ wc.inputLUT_8to32
              THEN inputLUT_8to32(f, srcRGB[k])
              ELSE IF f.inputCCF # "nil"
                   THEN ApplyCCF(f.inputCCF, FromUint8(srcRGB[k]))
                   ELSE FromUint8(srcRGB[k])
  IN  << c(1), c(2), c(3), FPOne >>

\* float32(v) / 65535.0 for a uint16 v, and entry v of the 16-bit input table.
FromUint16(v) == RoundDiv(v * FPOne, 65535)
inputLUT_16to32(f, v) == ApplyCCF(f.inputCCF, FromUint16(v))

\* convertSrcRow_Any for one pixel; srcSam16 = <<R, G, B, A>> is what the
\* pixel's RGBA() returned.
convertSrcPixel_Any(f, wc, srcSam16) ==
  IF srcSam16[4] = 0 THEN << 0, 0, 0, 0 >>
  ELSE IF f.inputCCF = "nil"
  THEN << FromUint16(srcSam16[1]), FromUint16(srcSam16[2]), FromUint16(srcSam16[3]),
          FromUint16(srcSam16[4]) >>
  ELSE IF srcSam16[4] = 65535
  THEN LET c(k) == IF wc.inputLUT_16to32 THEN inputLUT_16to32(f, srcSam16[k])
                   ELSE ApplyCCF(f.inputCCF, FromUint16(srcSam16[k]))
       IN  << c(1), c(2), c(3), FPOne >>
  ELSE LET a == FromUint16(srcSam16[4])
           c(k) == MulF(ApplyCCF(f.inputCCF, RoundDiv(srcSam16[k] * FPOne, srcSam16[4])), a)
       IN  << c(1), c(2), c(3), a >>

\* The source bytes of pixel (i, j) and the samples cvtRowFn stores for it.
srcBytes(src, i, j) ==
  IF src.type = "NRGBA"
  THEN << src.Pix[src.Stride * j + 4 * i], src.Pix[src.Stride * j + 4 * i + 1],
          src.Pix[src.Stride * j + 4 * i + 2], src.Pix[src.Stride * j + 4 * i + 3] >>
  ELSE << src.Pix[src.Stride * j + i] >>
convertSrcPixel(f, wc, i, j) ==
  IF wc.src.type = "NRGBA"
  THEN convertSrcPixel_NRGBA(f, wc, srcBytes(wc.src, i, j))
  ELSE convertSrcPixel_Gray(f, wc, srcBytes(wc.src, i, j)[1])

\* wc.cvtRowFn(fp, wc, j): the destination samples after row j is converted,
\* and whether the row sets fp.srcHasTransparency.
convertSrcRow(f, wc, dstPix, dstStride, j) ==
  Slice([idx \in DOMAIN dstPix |->
     IF idx >= j * dstStride /\ idx < j * dstStride + 4 * f.srcW
     THEN convertSrcPixel(f, wc, (idx - j * dstStride) \div 4, j)[((idx - j * dstStride) % 4) + 1]
     ELSE dstPix[idx]])
\* A row function that assigns fp.srcHasTransparency for every row, true or
\* false as the row has a pixel that is not opaque.
storeSrcHasTransparency_EveryRow(flagNow, rowTransparent) == rowTransparent
\* "if srcSam8[3] < 255 { fp.srcHasTransparency = true }": the value of the
\* flag once a row function has converted a row.
storeSrcHasTransparency(flagNow, rowTransparent) == IF rowTransparent THEN TRUE ELSE flagNow
convertSrcRowTransparent(f, wc, j) ==
  /\ wc.src.type = "NRGBA"
  /\ \E i \in 0..(f.srcW - 1) : srcBytes(wc.src, i, j)[4] < 255

RECURSIVE convertSrcRows(_, _, _, _, _)
convertSrcRows(f, wc, dstPix, dstStride, j) ==
  IF j >= f.srcH THEN dstPix
  ELSE convertSrcRows(f, wc, convertSrcRow(f, wc, dstPix, dstStride, j), dstStride, j + 1)

\* The convertSrcWorkContext: the source, and which input table was built.
convertSrcContext(f, src) ==
  [src |-> src,
   inputLUT_8to32 |-> src.type \in {"NRGBA", "RGBA", "YCbCr", "Gray"}
                      /\ makeInputLUT_Xto32(f, 256),
   inputLUT_16to32 |-> src.type \notin {"NRGBA", "RGBA", "YCbCr", "Gray"}
                       /\ makeInputLUT_Xto32(f, 65536)]

\* The size check at the head of convertSrc.
convertSrcTooLarge(f) == f.srcW * f.srcH > maxImagePixels

\* convertSrc past its size check: the type switch, the allocation of
\* dst.Pix, and the rows converted by the workers.  The result is
\* [err, f, dst, log]; log lists, in order, what the call did: "lut" (an input
\* table built), "make" (dst.Pix allocated), "go" (the workers started),
\* "rows" (all rows sent and all workers stopped).
convertSrcBody(f, src) ==
  LET wc == convertSrcContext(f, src)
      zero == MakeFPImage(f.srcW, f.srcH, src.tracked)
      transp == IF src.tracked
                THEN \E j \in 0..(f.srcH - 1) : convertSrcRowTransparent(f, wc, j)
                ELSE src.someTransparent
      dst == IF zero.tracked
             THEN [zero EXCEPT !.Pix = convertSrcRows(f, wc, zero.Pix, zero.Stride, 0)]
             ELSE zero
  IN  [err |-> "", dst |-> dst,
       f |-> [f EXCEPT !.srcHasColor = src.type \notin {"Gray", "Gray16"},
                       !.srcHasTransparency = f.srcHasTransparency \/ transp],
       log |-> << "convertSrc" >>
               \o (IF wc.inputLUT_8to32 \/ wc.inputLUT_16to32 THEN << "lut" >> ELSE << >>)
               \o << "make", "go", "rows" >>]

\* convertSrc with its size check moved behind the type switch and the
\* allocation.
convertSrc_LateCheck(f, src) ==
  IF convertSrcTooLarge(f)
  THEN [err |-> "Source image too large to process", f |-> f, dst |-> ZeroFPImage,
        log |-> convertSrcBody(f, src).log]
  ELSE convertSrcBody(f, src)

\* convertSrc(src, dst).
convertSrc(f, src) ==
  IF convertSrcTooLarge(f)
  THEN [err |-> "Source image too large to process", f |-> f, dst |-> ZeroFPImage,
        log |-> << "convertSrc" >>]
  ELSE convertSrcBody(f, src)

\* -------------------------------------------------------------- export
\* makeOutputLUT_Xto8(tableSize) and makeOutputLUT_Xto32(tableSize): whether
\* the table is built (non-nil).  Both test the same four conditions.
makeOutputLUT(f, tableSize) ==
  /\ f.inputCCF # "nil"
  /\ (f.outputCCFFlags \div CCFFlagNoCache) % 2 = 0
  /\ (f.outputCCFFlags \div CCFFlagWholePixels) % 2 = 0
  /\ ~(f.dstCanvasW * f.dstCanvasH < (tableSize \div 4) * f.numWorkers)

\* Entry int(x*float32(size-1)+0.5) of the float32 output table, and of the
\* uint8 output table, for a sample x.
outputLUT_Xto32(f, x) ==
  LET idx == (x * (outputLUT_Size - 1) + FPOne \div 2) \div FPOne
  IN  IF f.outputCCF = "LinearTosRGB" THEN LinearTosRGBFine[idx + 1]
      ELSE ApplyCCF(f.outputCCF, RoundDiv(idx * FPOne, outputLUT_Size - 1))
outputLUT_Xto8(f, x) == ToUint8(outputLUT_Xto32(f, x))

\* postProcessRow without the copy of the red sample to green and blue.
postProcessPixel_NoGrayCopy(f, p) ==
  IF ~f.mustProcessTransparency
  THEN << Clamp01(p[1]), Clamp01(p[2]), Clamp01(p[3]), FPOne >>
  ELSE IF p[4] <= 0 THEN << 0, 0, 0, 0 >>
  ELSE LET u(k) == IF p[4] # FPOne THEN DivF(p[k], p[4]) ELSE p[k]
       IN  << Clamp01(u(1)), Clamp01(u(2)), Clamp01(u(3)), Clamp01(p[4]) >>

\* postProcessRow clamping the four samples before it divides by alpha.
postProcessPixel_ClampFirst(f, p) ==
  LET q == IF ~f.mustProcessColor THEN << p[1], p[1], p[1], p[4] >> ELSE p
  IN  IF ~f.mustProcessTransparency
      THEN << Clamp01(q[1]), Clamp01(q[2]), Clamp01(q[3]), FPOne >>
      ELSE IF q[4] <= 0 THEN << 0, 0, 0, 0 >>
      ELSE LET a == Clamp01(q[4])
               u(k) == IF a # FPOne THEN DivF(Clamp01(q[k]), a) ELSE Clamp01(q[k])
           IN  << u(1), u(2), u(3), a >>

\* postProcessRow for one pixel p = <<R, G, B, A>>.
postProcessPixel(f, p) ==
  LET q == IF ~f.mustProcessColor THEN << p[1], p[1], p[1], p[4] >> ELSE p
  IN  IF ~f.mustProcessTransparency
      THEN << Clamp01(q[1]), Clamp01(q[2]), Clamp01(q[3]), FPOne >>
      ELSE IF q[4] <= 0 THEN << 0, 0, 0, 0 >>
      ELSE LET u(k) == IF q[4] # FPOne THEN DivF(q[k], q[4]) ELSE q[k]
           IN  << Clamp01(u(1)), Clamp01(u(2)), Clamp01(u(3)), Clamp01(q[4]) >>

\* A uint16 as two bytes, big endian.
BE16(v) == << v \div 256, v % 256 >>

\* cvtRowFn for one pixel whose samples are p: sam is what the row function
\* leaves in the float image, out the bytes it stores in the target image.
convertDstPixel_FP(f, wc, p) ==
  LET q == postProcessPixel(f, p)
  IN  [sam |-> IF f.outputCCF = "nil" \/ q[4] <= 0 THEN q
               ELSE << ApplyCCF(f.outputCCF, q[1]), ApplyCCF(f.outputCCF, q[2]),
                       ApplyCCF(f.outputCCF, q[3]), q[4] >>,
       out |-> << >>]
convertDstPixel_NRGBA(f, wc, p) ==
  LET q == postProcessPixel(f, p)
      a == IF ~f.mustProcessTransparency THEN 255 ELSE ToUint8(q[4])
      conv == f.outputCCF # "nil" /\ a > 0
      c == IF conv /\ ~wc.outputLUT_Xto8
           THEN << ApplyCCF(f.outputCCF, q[1]), ApplyCCF(f.outputCCF, q[2]),
                   ApplyCCF(f.outputCCF, q[3]), q[4] >>
           ELSE q
  IN  [sam |-> c,
       out |-> IF conv /\ wc.outputLUT_Xto8
               THEN << outputLUT_Xto8(f, q[1]), outputLUT_Xto8(f, q[2]),
                       outputLUT_Xto8(f, q[3]), a >>
               ELSE << ToUint8(c[1]), ToUint8(c[2]), ToUint8(c[3]), a >>]
\* convertDstRow_RGBA storing the colour samples without multiplying them by
\* alpha.
convertDstPixel_RGBA_Unassociated(f, wc, p) ==
  LET q == postProcessPixel(f, p)
      a == IF ~f.mustProcessTransparency THEN 255 ELSE ToUint8(q[4])
      conv == f.outputCCF # "nil" /\ a > 0
      cc(x) == IF wc.outputLUT_Xto32 THEN outputLUT_Xto32(f, x) ELSE ApplyCCF(f.outputCCF, x)
      c == IF conv THEN << cc(q[1]), cc(q[2]), cc(q[3]), q[4] >> ELSE q
  IN  [sam |-> c, out |-> << ToUint8(c[1]), ToUint8(c[2]), ToUint8(c[3]), a >>]
convertDstPixel_RGBA(f, wc, p) ==
  LET q == postProcessPixel(f, p)
      a == IF ~f.mustProcessTransparency THEN 255 ELSE ToUint8(q[4])
      conv == f.outputCCF # "nil" /\ a > 0
      cc(x) == IF wc.outputLUT_Xto32 THEN outputLUT_Xto32(f, x) ELSE ApplyCCF(f.outputCCF, x)
      c == IF conv THEN << cc(q[1]), cc(q[2]), cc(q[3]), q[4] >> ELSE q
  IN  [sam |-> c,
       out |-> << ToUint8(MulF(c[1], c[4])), ToUint8(MulF(c[2], c[4])),
                  ToUint8(MulF(c[3], c[4])), a >>]
convertDstPixel_RGBA64orNRGBA64(f, wc, p) ==
  LET q == postProcessPixel(f, p)
      a == IF ~f.mustProcessTransparency THEN 65535 ELSE ToUint16(q[4])
      c == IF f.outputCCF # "nil" /\ a > 0
           THEN << ApplyCCF(f.outputCCF, q[1]), ApplyCCF(f.outputCCF, q[2]),
                   ApplyCCF(f.outputCCF, q[3]), q[4] >>
           ELSE q
      d(k) == IF wc.isNRGBA64 THEN ToUint16(c[k]) ELSE ToUint16(MulF(c[k], c[4]))
  IN  [sam |-> c, out |-> BE16(d(1)) \o BE16(d(2)) \o BE16(d(3)) \o BE16(a)]
convertDstPixel_Gray(f, wc, p) ==
  LET srcVal == Clamp01(p[1])
  IN  [sam |-> p,
       out |-> IF f.outputCCF # "nil" /\ wc.outputLUT_Xto8
               THEN << outputLUT_Xto8(f, srcVal) >>
               ELSE IF f.outputCCF # "nil"
                    THEN << ToUint8(ApplyCCF(f.outputCCF, srcVal)) >>
                    ELSE << ToUint8(srcVal) >>]
convertDstPixel_Gray16(f, wc, p) ==
  LET q == postProcessPixel(f, p)
      v == IF f.outputCCF # "nil" THEN ApplyCCF(f.outputCCF, q[1]) ELSE q[1]
  IN  [sam |-> q, out |-> BE16(ToUint16(v))]

convertDstPixel(f, wc, p) ==
  CASE wc.cvtRowFn = "FP" -> convertDstPixel_FP(f, wc, p)
    [] wc.cvtRowFn = "NRGBA" -> convertDstPixel_NRGBA(f, wc, p)
    [] wc.cvtRowFn = "RGBA" -> convertDstPixel_RGBA(f, wc, p)
    [] wc.cvtRowFn = "RGBA64orNRGBA64" -> convertDstPixel_RGBA64orNRGBA64(f, wc, p)
    [] wc.cvtRowFn = "Gray" -> convertDstPixel_Gray(f, wc, p)
    [] wc.cvtRowFn = "Gray16" -> convertDstPixel_Gray16(f, wc, p)

\* The four samples of the pixel whose red sample is at index rp.
PixelAt(pix, rp) == << pix[rp], pix[rp + 1], pix[rp + 2], pix[rp + 3] >>

\* wc.cvtRowFn(fp, wc, j): the float image samples (src) and the target image
\* bytes (dst) after row j is converted.  wc.bpp is the bytes a pixel takes in
\* the target image.
convertDstRow(f, wc, srcIm, dstPix, dstStride, j) ==
  LET w == Dx(srcIm.Rect)
      px(i) == convertDstPixel(f, wc, PixelAt(srcIm.Pix, j * srcIm.Stride + i * 4))
  IN  [src |-> Slice([idx \in DOMAIN srcIm.Pix |->
                  IF idx >= j * srcIm.Stride /\ idx < j * srcIm.Stride + 4 * w
                  THEN px((idx - j * srcIm.Stride) \div 4).sam[((idx - j * srcIm.Stride) % 4) + 1]
                  ELSE srcIm.Pix[idx]]),
       dst |-> Slice([idx \in DOMAIN dstPix |->
                  IF idx >= j * dstStride /\ idx < j * dstStride + wc.bpp * w
                  THEN px((idx - j * dstStride) \div wc.bpp).out[((idx - j * dstStride) % wc.bpp) + 1]
                  ELSE dstPix[idx]])]

\* convertDstIndirect: every row converted, one after the other.
RECURSIVE convertDstRows(_, _, _, _, _, _)
convertDstRows(f, wc, srcIm, dstPix, dstStride, j) ==
  IF j >= Dy(srcIm.Rect) THEN [src |-> srcIm.Pix, dst |-> dstPix]
  ELSE LET Rest(r) ==
             convertDstRows(f, wc, [srcIm EXCEPT !.Pix = r.src], r.dst, dstStride, j + 1)
       IN  Rest(convertDstRow(f, wc, srcIm, dstPix, dstStride, j))

\* The target image type each convertDst_* allocates, the row function it
\* installs, and the output table it asks for: "8", "32" or "none".
convertDstRowFn(f, fmt) ==
  CASE fmt = "FP" -> "FP"
    [] fmt = "NRGBA" -> "NRGBA"
    [] fmt = "RGBA" -> IF ~f.mustProcessTransparency THEN "NRGBA" ELSE "RGBA"
    [] fmt \in {"NRGBA64", "RGBA64"} -> "RGBA64orNRGBA64"
    [] fmt = "Gray" -> "Gray"
    [] fmt = "Gray16" -> "Gray16"
convertDstTable(f, fmt) ==
  CASE fmt \in {"NRGBA", "Gray"} -> "8"
    [] fmt = "RGBA" -> IF ~f.mustProcessTransparency THEN "8" ELSE "32"
    [] OTHER -> "none"
convertDstContext(f, fmt) ==
  [cvtRowFn |-> convertDstRowFn(f, fmt),
   isNRGBA64 |-> fmt = "NRGBA64",
   bpp |-> IF fmt = "FP" THEN 0 ELSE BytesPerPixel(fmt),
   outputLUT_Xto8 |-> convertDstTable(f, fmt) = "8" /\ makeOutputLUT(f, outputLUT_Size),
   outputLUT_Xto32 |-> convertDstTable(f, fmt) = "32" /\ makeOutputLUT(f, outputLUT_Size)]

\* convertDst_FP, _NRGBA, _RGBA, _NRGBA64, _RGBA64, _Gray, _Gray16 on the float
\* image im: [panic, im, out, log].  im is the float image afterwards, out the
\* image returned (im itself for "FP").  Building an output table calls
\* fp.outputCCF, which panics when it is nil.
convertDst(f, im, fmt) ==
  LET wc == convertDstContext(f, fmt)
      lut == wc.outputLUT_Xto8 \/ wc.outputLUT_Xto32
      Converted(target, rows) ==
        LET im2 == IF im.tracked THEN [im EXCEPT !.Pix = rows.src] ELSE im
        IN  [panic |-> FALSE, im |-> im2,
             out |-> IF fmt = "FP" THEN [type |-> "FP"] @@ im2
                     ELSE IF im.tracked /\ target.tracked
                          THEN [target EXCEPT !.Pix = rows.dst] ELSE target,
             log |-> (IF lut THEN << "lut" >> ELSE << >>) \o << "go", "rows" >>]
      Into(target) ==
        IF lut /\ f.outputCCF = "nil"
        THEN [panic |-> TRUE, im |-> im, out |-> target, log |-> << "lut" >>]
        ELSE Converted(target, convertDstRows(f, wc, im, target.Pix, target.Stride, 0))
  IN  Into(IF fmt = "FP" THEN [type |-> "FP"] @@ im ELSE NewImage(fmt, im.Rect, im.tracked))

\* ------------------------------------------------------------ resizeMain
\* The heap of float images is a sequence; a *FPImage is an index into it and
\* 0 is nil.  new(FPImage) in resizeMain, resizeHeight and resizeWidth yields
\* a cell that no other pointer refers to; src is the image being read.
allocFPImage_InPlace(heap, src) == IF src # 0 THEN src ELSE Len(heap) + 1
allocFPImage(heap, src) == Len(heap) + 1
\* The heap after the image of cell id has become im.
StoreImage(heap, id, im) ==
  IF id > Len(heap) THEN Append(heap, im) ELSE [heap EXCEPT ![id] = im]

\* fp.numWorkers as resizeMain sets it; procs is runtime.GOMAXPROCS(0).
numWorkersFor_Unguarded(procs, maxWorkers) ==
  LET n == IF procs < 1 THEN 1 ELSE procs
  IN  IF n > maxWorkers THEN maxWorkers ELSE n
numWorkersFor(procs, maxWorkers) ==
  LET n == IF procs < 1 THEN 1 ELSE procs
  IN  IF maxWorkers > 0 /\ n > maxWorkers THEN maxWorkers ELSE n

targetTooLarge_AtLimit(f) == f.dstCanvasW * f.dstCanvasH >= maxImagePixels
\* The test of the target size at the head of resizeMain.
targetTooLarge(f) == f.dstCanvasW * f.dstCanvasH > maxImagePixels

\* setDefaultConverters testing for a nil converter where the code tests
\* inputCCFSet and outputCCFSet.
setDefaultConverters_OverNil(f) ==
  LET g == IF f.inputCCF = "nil" THEN SetInputColorConverter(f, "SRGBToLinear") ELSE f
  IN  IF g.outputCCF = "nil" THEN SetOutputColorConverter(g, "LinearTosRGB") ELSE g

\* The colour converters installed when the caller has set none.
setDefaultConverters(f) ==
  LET g == IF ~f.inputCCFSet THEN SetInputColorConverter(f, "SRGBToLinear") ELSE f
  IN  IF ~g.outputCCFSet THEN SetOutputColorConverter(g, "LinearTosRGB") ELSE g

\* ingest without "fp.srcImage = nil".
ingest_KeepsSource(f, heap) ==
  LET id == allocFPImage(heap, 0)
      Converted(r) ==
        [err |-> r.err, f |-> r.f, heap |-> StoreImage(heap, id, r.dst),
         ingested |-> IF r.err = "" THEN << r.dst >> ELSE << >>, log |-> r.log]
  IN  Converted(convertSrc([f EXCEPT !.srcFPImage = id], SrcImages[f.srcImage]))

\* fp.srcFPImage = new(FPImage); err = fp.convertSrc(...); on success
\* fp.srcImage = nil.  On error the new, empty image stays in fp.srcFPImage.
ingest(f, heap) ==
  LET id == allocFPImage(heap, 0)
      Converted(r) ==
        [err |-> r.err,
         f |-> IF r.err = "" THEN [r.f EXCEPT !.srcImage = 0] ELSE r.f,
         heap |-> StoreImage(heap, id, r.dst),
         ingested |-> IF r.err = "" THEN << r.dst >> ELSE << >>,
         log |-> r.log]
  IN  Converted(convertSrc([f EXCEPT !.srcFPImage = id], SrcImages[f.srcImage]))

\* setChannelInfo with transparency processing kept on once it was on.
setChannelInfo_Sticky(f) ==
  LET t == f.mustProcessTransparency \/ f.srcHasTransparency
             \/ f.virtualPixels = VirtualPixelsTransparent
  IN  [f EXCEPT !.mustProcessTransparency = t,
                !.mustProcessColor = f.srcHasColor,
                !.channelInfo = << TRUE, f.srcHasColor, f.srcHasColor, t >>]

\* mustProcessTransparency, mustProcessColor and the channelInfo fields.
setChannelInfo(f) ==
  LET t == f.srcHasTransparency \/ f.virtualPixels = VirtualPixelsTransparent
  IN  [f EXCEPT !.mustProcessTransparency = t,
                !.mustProcessColor = f.srcHasColor,
                !.channelInfo = << TRUE, f.srcHasColor, f.srcHasColor, t >>]

heightFirst_Flipped(f) == f.dstCanvasW <= f.srcW
\* Which pass resizeMain runs first.
heightFirst(f) == f.dstCanvasW > f.srcW

setDstRect_Origin(im, f) == im
\* dstFPImage.Rect = fp.dstBounds
setDstRect(im, f) == [im EXCEPT !.Rect = f.dstBounds]

\* A pass indexes src.Pix by the weight list made from fp.srcH or fp.srcW; it
\* panics (index or slice bounds out of range) when it has an item to process
\* and src has fewer rows or columns than that.
resizeHeightPanics(f, src) == Dx(src.Rect) > 0 /\ Dy(src.Rect) < f.srcH
resizeWidthPanics(f, src) == Dy(src.Rect) > 0 /\ Dx(src.Rect) < f.srcW

\* The two passes, in the order resizeMain chooses, and the final Rect.
\* ingested is handed through: the image convertSrc made in this call, if any.
resizePasses(f, heap, log, ingested) ==
  LET hf == heightFirst(f)
      src == heap[f.srcFPImage]
      panic1 == IF hf THEN resizeHeightPanics(f, src) ELSE resizeWidthPanics(f, src)
      id1 == allocFPImage(heap, f.srcFPImage)
      log1 == log \o << IF hf THEN "resizeHeight" ELSE "resizeWidth" >>
      log2 == log1 \o << IF hf THEN "resizeWidth" ELSE "resizeHeight" >>
      Second(heap2, id2) ==
        [err |-> "", panic |-> FALSE, f |-> f,
         heap |-> [heap2 EXCEPT ![id2] = setDstRect(heap2[id2], f)],
         dst |-> id2, log |-> log2, ingested |-> ingested]
      First(heap1) ==
        LET panic2 == IF hf THEN resizeWidthPanics(f, heap1[id1])
                      ELSE resizeHeightPanics(f, heap1[id1])
            id2 == allocFPImage(heap1, id1)
        IN  IF panic2
            THEN [err |-> "", panic |-> TRUE, f |-> f, heap |-> heap1, dst |-> 0,
                  log |-> log2, ingested |-> ingested]
            ELSE Second(StoreImage(heap1, id2, IF hf THEN resizeWidth(f, heap1[id1])
                                               ELSE resizeHeight(f, heap1[id1])), id2)
  IN  IF panic1
      THEN [err |-> "", panic |-> TRUE, f |-> f, heap |-> heap, dst |-> 0, log |-> log1,
            ingested |-> ingested]
      ELSE First(StoreImage(heap, id1, IF hf THEN resizeHeight(f, src) ELSE resizeWidth(f, src)))

\* resizeMain(): [err, panic, f, heap, dst, log, ingested]; dst is the *FPImage
\* returned.
resizeMain(f0, heap0, procs) ==
  LET f1 == [f0 EXCEPT !.numWorkers = numWorkersFor(procs, f0.maxWorkers)]
      f2 == setDefaultConverters(f1)
      Ingested(ing) ==
        IF ing.err # ""
        THEN [err |-> ing.err, panic |-> FALSE, f |-> ing.f, heap |-> ing.heap,
              dst |-> 0, log |-> ing.log, ingested |-> << >>]
        ELSE resizePasses(setChannelInfo(ing.f), ing.heap, ing.log, ing.ingested)
  IN  IF targetTooLarge(f1)
      THEN [err |-> "Target image too large", panic |-> FALSE, f |-> f1, heap |-> heap0,
            dst |-> 0, log |-> << >>, ingested |-> << >>]
      ELSE Ingested(IF f2.srcFPImage = 0 THEN ingest(f2, heap0)
                    ELSE [err |-> "", f |-> f2, heap |-> heap0, log |-> << >>,
                          ingested |-> << >>])

\* resizeToImageFormat without the test of mustProcessTransparency.
resizeToImageFormat_IgnoresTransparency(f, flags) ==
  LET has(b) == (flags \div b) % 2 = 1
  IN  IF ~f.mustProcessColor /\ has(ResizeFlagGrayOK)
      THEN (IF has(ResizeFlag16Bit) THEN "Gray16" ELSE "Gray")
      ELSE IF has(ResizeFlagUnassocAlpha)
      THEN (IF has(ResizeFlag16Bit) THEN "NRGBA64" ELSE "NRGBA")
      ELSE (IF has(ResizeFlag16Bit) THEN "RGBA64" ELSE "RGBA")

\* The format ResizeToImage(flags) converts to.
resizeToImageFormat(f, flags) ==
  LET has(b) == (flags \div b) % 2 = 1
  IN  IF ~f.mustProcessColor /\ ~f.mustProcessTransparency /\ has(ResizeFlagGrayOK)
      THEN (IF has(ResizeFlag16Bit) THEN "Gray16" ELSE "Gray")
      ELSE IF has(ResizeFlagUnassocAlpha)
      THEN (IF has(ResizeFlag16Bit) THEN "NRGBA64" ELSE "NRGBA")
      ELSE (IF has(ResizeFlag16Bit) THEN "RGBA64" ELSE "RGBA")

\* The nil image an entry point returns with an error.
NilImage == [type |-> "nil", Rect |-> ZR, Stride |-> 0, tracked |-> FALSE, Pix |-> << >>]

\* Resize, ResizeToNRGBA, ResizeToRGBA, ResizeToNRGBA64, ResizeToRGBA64 and
\* ResizeToImage(flags): resizeMain, then the conversion of its image.  entry
\* is the format of the entry point, or "Image" for ResizeToImage.
ResizeTo(f0, heap0, procs, entry, flags) ==
  LET Converted(m, c) ==
        [err |-> "", panic |-> c.panic, f |-> m.f,
         heap |-> [m.heap EXCEPT ![m.dst] = c.im],
         img |-> IF c.panic THEN NilImage ELSE c.out,
         log |-> m.log \o << "export" >> \o c.log, ingested |-> m.ingested]
      Resized(m) ==
        IF m.panic \/ m.err # ""
        THEN [err |-> m.err, panic |-> m.panic, f |-> m.f, heap |-> m.heap,
              img |-> NilImage, log |-> m.log, ingested |-> m.ingested]
        ELSE Converted(m, convertDst(m.f, m.heap[m.dst],
                                     IF entry = "Image" THEN resizeToImageFormat(m.f, flags)
                                     ELSE entry))
  IN  Resized(resizeMain(f0, heap0, procs))

\* ------------------------------------------------------- the FPObject
\* One FPObject and its caller.
\*   fp        the FPObject
\*   heap      the float images the object's calls have allocated
\*   ret       the last call and what it returned: [entry, flags, err, panic,
\*             img]
\*   log       what the last Resize* call did, in order
\*   calls     the Resize* calls made so far
\*   okCalls   those of them that returned an image
\*   ingests   the calls of convertSrc so far
\*   ingested  the image convertSrc made, as it was when convertSrc returned
\*   procs     runtime.GOMAXPROCS(0)
\*   target    the rectangle the caller gave to the last SetTargetBounds or
\*             SetTargetBoundsAdvanced
\*   asked     what the caller has asked for with the other setters: the
\*             converter given to the last SetInputColorConverter and to the
\*             last SetOutputColorConverter ("unset" when never called), the
\*             virtual-pixel mode of the last of SetTargetBounds,
\*             SetTargetBoundsAdvanced and SetVirtualPixels, the setter
\*             calls made of those that are counted against MaxSetters, and
\*             the mode that was asked for at each Resize* call so far
VARIABLES fp, heap, ret, log, calls, okCalls, ingests, ingested, procs, target, asked
objVars == << fp, heap, ret, log, calls, okCalls, ingests, ingested, procs, target, asked >>

\* One pass and its goroutines.
\*   pass      what the coordinator set up before it started the workers
\*   sent      the items the coordinator has handed over, stop items included
\*   returned  whether the coordinator has returned from the pass
\*   wk        per worker: pc, the item it holds, its place i in the weight
\*             list, the sum acc it has computed and not yet stored, and the
\*             stop items it has received
\*   img       the samples of the float image the workers write
\*   out       the bytes of the image an export pass fills
\*   flag      fp.srcHasTransparency
\*   wrImg     per item, the indices of img written while processing it
\*   wrOut     per item, the indices of out written while processing it
\*   done      the items processed to completion
VARIABLES pass, sent, returned, wk, img, out, flag, wrImg, wrOut, done
poolVars == << pass, sent, returned, wk, img, out, flag, wrImg, wrOut, done >>

vars == << fp, heap, ret, log, calls, okCalls, ingests, ingested, procs, target, asked,
           pass, sent, returned, wk, img, out, flag, wrImg, wrOut, done >>

\* The rectangles the caller asks for: small ones, off the origin too, a wide
\* one, one of exactly maxImagePixels pixels and one of maxImagePixels + 1.
TargetRects ==
  { Rect(1, 2, 3, 3), Rect(-1, -1, 2, 2), Rect(0, 0, 32769, 1),
    Rect(0, 0, 2089, 256999), Rect(5, 7, 32773, 16391) }
\* Arguments of SetTargetBoundsAdvanced: the canvas, and the corners of the
\* image on it as numerators over CoordDen.
AdvancedTargets ==
  { [r |-> Rect(0, 0, 2, 3), x1 |-> -1, y1 |-> 1, x2 |-> 5, y2 |-> 5] }

\* Nothing asked for yet: the state of the caller after New.
NothingAsked ==
  [inputCCF |-> "unset", outputCCF |-> "unset", virtualPixels |-> VirtualPixelsNone,
   setters |-> 0, resized |-> << >>]
\* The caller's record after a setter call that sets the virtual-pixel mode.
AskedMode(a, n) == [a EXCEPT !.virtualPixels = n]

NoReturn == [entry |-> "", flags |-> 0, err |-> "", panic |-> FALSE, img |-> NilImage]
NoPass == [kind |-> "none"]

\* No pass is followed while the calls of an object are.
PoolIdle ==
  /\ pass = NoPass
  /\ sent = 0
  /\ returned = FALSE
  /\ wk = << >>
  /\ img = << >>
  /\ out = << >>
  /\ flag = FALSE
  /\ wrImg = << >>
  /\ wrOut = << >>
  /\ done = {}

\* The sources of the objects whose calls are followed.
SpecSources == 1..6

Init ==
  /\ \E i \in SpecSources : fp = New(i, "triangle")
  /\ heap = << >>
  /\ ret = NoReturn
  /\ log = << >>
  /\ calls = 0
  /\ okCalls = 0
  /\ ingests = 0
  /\ ingested = NilImage
  /\ procs \in 1..MaxProcs
  /\ target = ZR
  /\ asked = NothingAsked
  /\ PoolIdle

\* A call of a setter: fp changes, nothing is returned.
Setter(f) ==
  /\ ~ret.panic
  /\ fp' = f
  /\ ret' = NoReturn
  /\ log' = << >>
  /\ UNCHANGED << heap, calls, okCalls, ingests, ingested, procs >>
  /\ UNCHANGED poolVars

CallSetTargetBounds ==
  \E r \in TargetRects :
     /\ Setter(SetTargetBounds(fp, r))
     /\ target' = r
     /\ asked' = AskedMode(asked, VirtualPixelsNone)
CallSetTargetBoundsAdvanced ==
  \E a \in AdvancedTargets :
     /\ Setter(SetTargetBoundsAdvanced(fp, a.r, a.x1, a.y1, a.x2, a.y2))
     /\ target' = a.r
     /\ asked' = AskedMode(asked, VirtualPixelsTransparent)
CallSetMaxWorkerThreads ==
  \E n \in 0..1 :
     /\ Setter(SetMaxWorkerThreads(fp, n))
     /\ target' = target
     /\ asked' = asked

\* The float images still referred to when a call starts: the cached one.
liveHeap == SubSeq(heap, 1, fp.srcFPImage)

\* Whether a call's log shows that it called convertSrc.
RanConvertSrc(l) == \E k \in 1..Len(l) : l[k] = "convertSrc"

\* A call of a Resize* entry point, from its first statement to its return.
\* The target bounds have been set; a panic ends the program.
Call(entry, flags) ==
  /\ ~ret.panic
  /\ calls < MaxCalls
  /\ fp.dstCanvasW >= 1
  /\ \E r \in { ResizeTo(fp, liveHeap, procs, entry, flags) } :
         /\ fp' = r.f
         /\ heap' = r.heap
         /\ ret' = [entry |-> entry, flags |-> flags, err |-> r.err, panic |-> r.panic,
                    img |-> r.img]
         /\ log' = r.log
         /\ calls' = calls + 1
         /\ okCalls' = IF r.err = "" /\ ~r.panic THEN okCalls + 1 ELSE okCalls
         /\ ingests' = IF RanConvertSrc(r.log) THEN ingests + 1 ELSE ingests
         /\ ingested' = IF r.ingested # << >> THEN r.ingested[1] ELSE ingested
  /\ asked' = [asked EXCEPT !.resized = Append(@, asked.virtualPixels)]
  /\ UNCHANGED << procs, target >>
  /\ UNCHANGED poolVars

CallResize == Call("FP", 0)
CallResizeToNRGBA == Call("NRGBA", 0)
CallResizeToRGBA == Call("RGBA", 0)
CallResizeToNRGBA64 == Call("NRGBA64", 0)
CallResizeToRGBA64 == Call("RGBA64", 0)
CallResizeToImage == \E flags \in 0..7 : Call("Image", flags)

Next ==
  \/ CallSetTargetBounds
  \/ CallSetTargetBoundsAdvanced
  \/ CallSetMaxWorkerThreads
  \/ CallResize
  \/ CallResizeToNRGBA
  \/ CallResizeToRGBA
  \/ CallResizeToNRGBA64
  \/ CallResizeToRGBA64
  \/ CallResizeToImage

Spec == Init /\ [][Next]_vars

\* ------------------------------------------------- claims on the object
\* The image given to New: the one fp.srcImage named at first.
GivenImage == CHOOSE i \in 1..Len(SrcImages) : fp.srcBounds = SrcImages[i].Rect

\* C4: ingest happens once per FPObject.  Before any Resize* call has run
\* convertSrc, srcFPImage is nil and srcImage is the image given to New; once
\* a Resize* call has returned an image, convertSrc has run exactly once,
\* srcImage is nil and srcFPImage is not, whatever calls and setters follow.
C4_IngestOnce ==
  /\ ingests = 0 => fp.srcFPImage = 0 /\ fp.srcImage = GivenImage
  /\ okCalls >= 1 => ingests = 1 /\ fp.srcImage = 0 /\ fp.srcFPImage # 0
\* Two calls have returned an image, with a setter call in between or not.
C4_Witness == okCalls = 2 /\ ingests = 1 /\ fp.srcImage = 0

\* C5: the cached image is never mutated after ingest.  Whenever the object
\* holds an ingested image, its samples, stride and rectangle are those it
\* had when convertSrc returned, after every later call of any format.
C5_CachedImageUnchanged ==
  okCalls >= 1 => heap[fp.srcFPImage] = ingested
\* A second call, converting in place to an 8-bit image, has returned, and
\* the samples of the cached image are followed.
C5_Witness ==
  /\ okCalls = 2
  /\ ret.entry = "RGBA"
  /\ ret.img.tracked
  /\ heap[fp.srcFPImage].tracked
  /\ Len(heap) = 3

\* C6: a target of more than maxImagePixels pixels is rejected before ingest.
\* Every Resize* call made with such a target returns an error and the nil
\* image, does not call convertSrc and leaves srcFPImage and srcImage as they
\* were; a call made with a target of exactly maxImagePixels pixels does not
\* return that error.
C6_TargetTooLargeBeforeIngest ==
  [][calls' = calls + 1 =>
       /\ fp.dstCanvasW * fp.dstCanvasH > maxImagePixels =>
            /\ ret'.err = "Target image too large"
            /\ ret'.img = NilImage
            /\ ~RanConvertSrc(log')
            /\ ingests' = ingests
            /\ fp'.srcFPImage = fp.srcFPImage
            /\ fp'.srcImage = fp.srcImage
       /\ fp.dstCanvasW * fp.dstCanvasH = maxImagePixels =>
            ret'.err # "Target image too large"]_vars
\* A call on a fresh object was rejected for its target.
C6_Witness ==
  /\ ret.entry # ""
  /\ ret.err = "Target image too large"
  /\ fp.srcFPImage = 0
  /\ fp.srcImage # 0
  /\ fp.dstCanvasW * fp.dstCanvasH = maxImagePixels + 1

\* C7: a source of more than maxImagePixels pixels is detected by convertSrc
\* before anything is allocated.  A call that ran convertSrc on such a source
\* did nothing else (no table built, no pixel array made, no worker started)
\* and returned the error and the nil image.
C7_SourceTooLargeNoAllocation ==
  RanConvertSrc(log) /\ convertSrcTooLarge(fp) =>
    /\ log = << "convertSrc" >>
    /\ ret.err = "Source image too large to process"
    /\ ret.img = NilImage
\* Such a call has returned, on a source large enough for an input table.
C7_Witness ==
  /\ ret.entry # ""
  /\ RanConvertSrc(log)
  /\ convertSrcTooLarge(fp)
  /\ makeInputLUT_Xto32(fp, 256)

\* C9: every float image a resize allocates (the ingested source, the
\* intermediate image and the destination) has at most maxImagePixels pixels.
C9_AllocatedImagesFit ==
  \A k \in 1..Len(heap) :
     Dx(heap[k].Rect) > 0 => Dy(heap[k].Rect) <= maxImagePixels \div Dx(heap[k].Rect)
\* A resize to a wide target of a tall source has returned: resizing the
\* width first would have needed 32769 x 16384 pixels.
C9_Witness ==
  /\ ret.entry # ""
  /\ ret.err = ""
  /\ Len(heap) = 3
  /\ fp.srcH = 16384
  /\ fp.dstCanvasW = 32769

\* C10: a successful resize returns an image whose Bounds() is the rectangle
\* the caller set, for every entry point and for rectangles off the origin.
C10_ReturnedBounds ==
  ret.entry # "" /\ ret.err = "" /\ ~ret.panic /\ Dx(target) >= 1 /\ Dy(target) >= 1
    => ret.img.Rect = target
\* ResizeToImage has returned an image for a rectangle off the origin.
C10_Witness ==
  /\ ret.entry = "Image"
  /\ ret.err = ""
  /\ ~ret.panic
  /\ target = Rect(-1, -1, 2, 2)
  /\ ret.img.Rect = target

\* ----------------------------------------------------------- worker pool
\* convertSrc, resizeHeight, resizeWidth and convertDstIndirect each make an
\* unbuffered channel, start fp.numWorkers workers, send one item per row or
\* lane and then one stop item per worker.  A pass is what the coordinator
\* has set up when it starts the workers:
\*   kind    the function that runs the pass
\*   f       the FPObject
\*   wc      the work context
\*   items   the work items, in the order they are sent: [lane, srcOff,
\*           dstOff], where lane is the row j for convertSrc and convertDst
\*   src     the samples a resampling pass reads
\*   dst     the float image the workers write
\*   raster  the image an export pass fills
RowItems(n) == [j \in 1..n |-> [lane |-> j - 1, srcOff |-> 0, dstOff |-> 0]]

ConvertSrcPass(f, src) ==
  [kind |-> "convertSrc", f |-> f, wc |-> convertSrcContext(f, src),
   items |-> RowItems(f.srcH), src |-> << >>,
   dst |-> MakeFPImage(f.srcW, f.srcH, src.tracked), raster |-> NilImage]
ResizeHeightPass(f, src) ==
  [kind |-> "resizeHeight", f |-> f,
   wc |-> resizeHeightContext(f, src, resizeHeightDst(f, src)),
   items |-> resizeHeightItems(f, src), src |-> src.Pix,
   dst |-> resizeHeightDst(f, src), raster |-> NilImage]
ResizeWidthPass(f, src) ==
  [kind |-> "resizeWidth", f |-> f,
   wc |-> resizeWidthContext(f, src, resizeWidthDst(f, src)),
   items |-> resizeWidthItems(f, src, resizeWidthDst(f, src)), src |-> src.Pix,
   dst |-> resizeWidthDst(f, src), raster |-> NilImage]
ConvertDstPass(f, im, fmt) ==
  [kind |-> "convertDst", f |-> f, wc |-> convertDstContext(f, fmt),
   items |-> RowItems(Dy(im.Rect)), src |-> << >>, dst |-> im,
   raster |-> IF fmt = "FP" THEN NilImage ELSE NewImage(fmt, im.Rect, im.tracked)]

stopItems_OneShort(f) == f.numWorkers - 1
\* The stop items the coordinator sends once the work items are sent.
stopItems(f) == f.numWorkers

\* The indices cvtRowFn(fp, wc, j) writes: row j of the float image, and for
\* an export row j of the target image too.
convertSrcRowWrites(f, dstStride, j) == (j * dstStride)..(j * dstStride + 4 * f.srcW - 1)
convertDstRowWrites(wc, srcIm, dstStride, j) ==
  [img |-> (j * srcIm.Stride)..(j * srcIm.Stride + 4 * Dx(srcIm.Rect) - 1),
   out |-> (j * dstStride)..(j * dstStride + wc.bpp * Dx(srcIm.Rect) - 1)]

\* The pass run by a single worker: the samples of dst and the bytes of
\* raster it leaves.
SeqPass(p) ==
  CASE p.kind = "convertSrc" ->
         [img |-> convertSrcRows(p.f, p.wc, p.dst.Pix, p.dst.Stride, 0), out |-> << >>]
    [] p.kind \in {"resizeHeight", "resizeWidth"} ->
         [img |-> ResampleAll(p.wc, p.src, p.dst.Pix, p.items, 1, Len(p.items)),
          out |-> << >>]
    [] p.kind = "convertDst" ->
         LET r == convertDstRows(p.f, p.wc, p.dst, p.raster.Pix, p.raster.Stride, 0)
         IN  [img |-> r.src, out |-> r.dst]

\* The passes of one Resize* call that run to their end, in order: what
\* resizeMain and the conversion after it start, up to a pass that panics.
PassesOfCall(f0, heap0, gomaxprocs, entry, flags) ==
  LET f1 == [f0 EXCEPT !.numWorkers = numWorkersFor(gomaxprocs, f0.maxWorkers)]
      f2 == setDefaultConverters(f1)
      first == f2.srcFPImage = 0
      fS == [f2 EXCEPT !.srcFPImage = allocFPImage(heap0, 0)]
      pS == IF first /\ ~convertSrcTooLarge(fS)
            THEN << ConvertSrcPass(fS, SrcImages[f2.srcImage]) >> ELSE << >>
      Export(f3, p3) ==
        IF (p3.wc.outputLUT_Xto8 \/ p3.wc.outputLUT_Xto32) /\ f3.outputCCF = "nil"
        THEN << >> ELSE << p3 >>
      Second(f3, im1) ==
        IF heightFirst(f3)
        THEN IF resizeWidthPanics(f3, im1) THEN << >>
             ELSE << ResizeWidthPass(f3, im1) >>
                  \o Export(f3, ConvertDstPass(f3, setDstRect(resizeWidth(f3, im1), f3),
                                               IF entry = "Image"
                                               THEN resizeToImageFormat(f3, flags)
                                               ELSE entry))
        ELSE IF resizeHeightPanics(f3, im1) THEN << >>
             ELSE << ResizeHeightPass(f3, im1) >>
                  \o Export(f3, ConvertDstPass(f3, setDstRect(resizeHeight(f3, im1), f3),
                                               IF entry = "Image"
                                               THEN resizeToImageFormat(f3, flags)
                                               ELSE entry))
      First(f3, src) ==
        IF heightFirst(f3)
        THEN IF resizeHeightPanics(f3, src) THEN << >>
             ELSE << ResizeHeightPass(f3, src) >> \o Second(f3, resizeHeight(f3, src))
        ELSE IF resizeWidthPanics(f3, src) THEN << >>
             ELSE << ResizeWidthPass(f3, src) >> \o Second(f3, resizeWidth(f3, src))
      Ingested(ing) ==
        IF ing.err # "" THEN << >>
        ELSE First(setChannelInfo(ing.f), ing.heap[ing.f.srcFPImage])
  IN  IF targetTooLarge(f1) THEN << >>
      ELSE pS \o Ingested(IF first THEN ingest(f2, heap0)
                          ELSE [err |-> "", f |-> f2, heap |-> heap0])

\* The calls whose passes are followed: the source image, the target (for
\* SetTargetBoundsAdvanced when adv holds), the entry point and its flags,
\* whether the call is the first or the second one made on the object, and
\* whether only the last pass of the call is followed.
PoolCase(src, adv, r, entry, flags, nth, lastOnly) ==
  [src |-> src, adv |-> adv, r |-> r, entry |-> entry, flags |-> flags, nth |-> nth,
   lastOnly |-> lastOnly]
PoolCases ==
  { PoolCase(1, FALSE, Rect(1, 2, 3, 3), "RGBA", 0, 1, FALSE),
    PoolCase(1, FALSE, Rect(1, 2, 3, 3), "FP", 0, 2, FALSE),
    PoolCase(3, FALSE, Rect(-1, -1, 2, 2), "Image", ResizeFlagGrayOK, 1, FALSE),
    PoolCase(3, TRUE, Rect(0, 0, 2, 3), "NRGBA", 0, 1, FALSE),
    PoolCase(5, FALSE, Rect(0, 0, 1, 2), "NRGBA", 0, 2, FALSE) }
\* A call whose target has exactly (outputLUT_Size \div 4) pixels: its export
\* pass builds the output table with one worker and not with two.
DetCases == { PoolCase(2, FALSE, Rect(0, 0, 353, 7), "NRGBA", 0, 1, TRUE) }

\* Arguments of SetTargetBoundsAdvanced that put the image on the right half
\* of a canvas twice as wide as the source: the left half is outside of it.
VirtualTargets ==
  { [r |-> Rect(0, 0, 4, 2), x1 |-> 2 * CoordDen, y1 |-> 0,
     x2 |-> 4 * CoordDen, y2 |-> 2 * CoordDen] }

\* The object a case's calls are made on.
CaseObject(c, maxWorkers) ==
  LET f == New(c.src, "triangle")
      a == CHOOSE t \in AdvancedTargets \cup VirtualTargets : t.r = c.r
      g == IF c.adv THEN SetTargetBoundsAdvanced(f, a.r, a.x1, a.y1, a.x2, a.y2)
           ELSE SetTargetBounds(f, c.r)
  IN  SetMaxWorkerThreads(g, maxWorkers)
\* The object and the float images it refers to when the case's call starts.
\* A first call has left them as its resizeMain left them: the convertDst_*
\* functions assign no field of fp and write no image but the one returned.
CaseStart(c, maxWorkers, gomaxprocs) ==
  LET After(m) == [f |-> m.f, heap |-> SubSeq(m.heap, 1, m.f.srcFPImage)]
  IN  IF c.nth = 1 THEN [f |-> CaseObject(c, maxWorkers), heap |-> << >>]
      ELSE After(resizeMain(CaseObject(c, maxWorkers), << >>, gomaxprocs))

\* The coordinator has made the channel and started the workers.
StartPass(p) ==
  /\ pass = p
  /\ sent = 0
  /\ returned = (Len(p.items) + stopItems(p.f) = 0)
  /\ wk = [w \in 1..p.f.numWorkers |->
             [pc |-> "idle", item |-> 0, i |-> 0, acc |-> 0, stops |-> 0]]
  /\ img = p.dst.Pix
  /\ out = p.raster.Pix
  /\ flag = p.f.srcHasTransparency
  /\ wrImg = [k \in 1..Len(p.items) |-> {}]
  /\ wrOut = [k \in 1..Len(p.items) |-> {}]
  /\ done = {}

\* A call of a case has come to one of its passes.  fp and heap are the
\* object and its images as they were when the call started, ret.entry and
\* ret.flags the entry point called.
PoolInitOf(cases) ==
  \E c \in cases, m \in 0..1, g \in 1..MaxProcs :
     \E s \in { CaseStart(c, m, g) } :
        /\ \E ps \in { PassesOfCall(s.f, s.heap, g, c.entry, c.flags) } :
              \E k \in 1..Len(ps) : (c.lastOnly => k = Len(ps)) /\ StartPass(ps[k])
        /\ fp = s.f
        /\ heap = s.heap
        /\ ret = [entry |-> c.entry, flags |-> c.flags, err |-> "", panic |-> FALSE,
                  img |-> NilImage]
        /\ log = << >>
        /\ calls = c.nth - 1
        /\ okCalls = 0
        /\ ingests = 0
        /\ ingested = NilImage
        /\ procs = g
        /\ target = c.r
        /\ asked = [AskedMode(NothingAsked, s.f.virtualPixels)
                      EXCEPT !.resized = [k \in 1..(c.nth - 1) |-> s.f.virtualPixels]]

Resamples == {"resizeHeight", "resizeWidth"}
\* The first weight at or after i that is not a virtual pixel's, or
\* len(wc.weightList) + 1: where resampleWorker's loop next touches a sample.
NextReal(wc, i) ==
  IF \E k \in i..Len(wc.weightList) : WeightIsReal(wc, k)
  THEN CHOOSE k \in i..Len(wc.weightList) :
         WeightIsReal(wc, k) /\ \A m \in i..(k - 1) : ~WeightIsReal(wc, m)
  ELSE Len(wc.weightList) + 1

\* "workQueue <- wi" meets "wi = <-workQueue" of worker w, for a work item.
\* A resampling worker goes on to the first weight it has to apply.
Receive(w) ==
  /\ ~returned
  /\ wk[w].pc = "idle"
  /\ sent < Len(pass.items)
  /\ sent' = sent + 1
  /\ returned' = (sent + 1 = Len(pass.items) + stopItems(pass.f))
  /\ IF pass.kind \in Resamples /\ NextReal(pass.wc, 1) > Len(pass.wc.weightList)
     THEN wk' = wk /\ done' = done \cup {sent + 1}
     ELSE /\ wk' = [wk EXCEPT ![w].pc = IF pass.kind \in Resamples THEN "read" ELSE "row",
                              ![w].item = sent + 1,
                              ![w].i = IF pass.kind \in Resamples
                                       THEN NextReal(pass.wc, 1) ELSE 0]
          /\ done' = done
  /\ UNCHANGED << pass, img, out, flag, wrImg, wrOut >>
  /\ UNCHANGED objVars

\* The same for a stop item: "if wi.stopNow { return }".  The coordinator
\* returns when it has handed over the last one.
ReceiveStop(w) ==
  /\ ~returned
  /\ wk[w].pc = "idle"
  /\ sent >= Len(pass.items)
  /\ sent < Len(pass.items) + stopItems(pass.f)
  /\ sent' = sent + 1
  /\ returned' = (sent + 1 = Len(pass.items) + stopItems(pass.f))
  /\ wk' = [wk EXCEPT ![w].pc = "exited", ![w].stops = @ + 1]
  /\ UNCHANGED << pass, img, out, flag, wrImg, wrOut, done >>
  /\ UNCHANGED objVars

\* "wi.dstSam[..] += wi.srcSam[..] * weight" reads both samples and adds...
ReadSample(w) ==
  /\ wk[w].pc = "read"
  /\ wk' = [wk EXCEPT ![w].pc = "write",
                      ![w].acc = WeightSum(pass.wc, pass.src, img,
                                           pass.items[wk[w].item], wk[w].i)]
  /\ UNCHANGED << pass, sent, returned, img, out, flag, wrImg, wrOut, done >>
  /\ UNCHANGED objVars

\* ... and stores the sum; the worker goes on to the next weight it has to
\* apply, or to the channel when there is none.
WriteSample(w) ==
  /\ wk[w].pc = "write"
  /\ LET k == wk[w].item
         idx == WeightDstIdx(pass.wc, pass.items[k], wk[w].i)
         nxt == NextReal(pass.wc, wk[w].i + 1)
     IN  /\ img' = [img EXCEPT ![idx] = wk[w].acc]
         /\ wrImg' = [wrImg EXCEPT ![k] = @ \cup {idx}]
         /\ IF nxt > Len(pass.wc.weightList)
            THEN wk' = [wk EXCEPT ![w].pc = "idle"] /\ done' = done \cup {k}
            ELSE wk' = [wk EXCEPT ![w].pc = "read", ![w].i = nxt] /\ done' = done
  /\ UNCHANGED << pass, sent, returned, out, flag, wrOut >>
  /\ UNCHANGED objVars

\* convertSrcWorker: wc.cvtRowFn(fp, wc, wi.j).
ConvertSrcRow(w) ==
  /\ wk[w].pc = "row"
  /\ pass.kind = "convertSrc"
  /\ LET k == wk[w].item
         j == pass.items[k].lane
     IN  /\ img' = convertSrcRow(pass.f, pass.wc, img, pass.dst.Stride, j)
         /\ flag' = storeSrcHasTransparency(flag, convertSrcRowTransparent(pass.f, pass.wc, j))
         /\ wrImg' = [wrImg EXCEPT ![k] = @ \cup convertSrcRowWrites(pass.f, pass.dst.Stride, j)]
         /\ done' = done \cup {k}
  /\ wk' = [wk EXCEPT ![w].pc = "idle"]
  /\ UNCHANGED << pass, sent, returned, out, wrOut >>
  /\ UNCHANGED objVars

\* convertDstWorker: wc.cvtRowFn(fp, wc, wi.j).
ConvertDstRow(w) ==
  /\ wk[w].pc = "row"
  /\ pass.kind = "convertDst"
  /\ LET k == wk[w].item
         j == pass.items[k].lane
         srcIm == [pass.dst EXCEPT !.Pix = img]
         wr == convertDstRowWrites(pass.wc, srcIm, pass.raster.Stride, j)
     IN  /\ \E r \in { convertDstRow(pass.f, pass.wc, srcIm, out, pass.raster.Stride, j) } :
               img' = r.src /\ out' = r.dst
         /\ wrImg' = [wrImg EXCEPT ![k] = @ \cup wr.img]
         /\ wrOut' = [wrOut EXCEPT ![k] = @ \cup wr.out]
         /\ done' = done \cup {k}
  /\ wk' = [wk EXCEPT ![w].pc = "idle"]
  /\ UNCHANGED << pass, sent, returned, flag >>
  /\ UNCHANGED objVars

\* The workers the coordinator starts: "for i = 0; i < fp.numWorkers; i++".
Workers == 1..pass.f.numWorkers

PoolNext ==
  \/ \E w \in Workers : Receive(w)
  \/ \E w \in Workers : ReceiveStop(w)
  \/ \E w \in Workers : ReadSample(w)
  \/ \E w \in Workers : WriteSample(w)
  \/ \E w \in Workers : ConvertSrcRow(w)
  \/ \E w \in Workers : ConvertDstRow(w)

PoolInit == PoolInitOf(PoolCases)
PoolSpec == PoolInit /\ [][PoolNext]_vars
\* A goroutine that can take a step eventually takes one.
FairPoolSpec == PoolInit /\ [][PoolNext]_vars /\ WF_vars(PoolNext)
DetInit == PoolInitOf(PoolCases \cup DetCases)
DetSpec == DetInit /\ [][PoolNext]_vars

\* --------------------------------------------------- claims on a pass
\* C1: worker-pool completion.  In every pass, when the coordinator has
\* handed over the last stop item (it has returned), every work item it sent
\* has been processed to completion and no worker still holds one; this for
\* every interleaving, passes without any item and one or two workers.
C1_AllWorkDone ==
  returned =>
    /\ sent = Len(pass.items) + pass.f.numWorkers
    /\ done = 1..Len(pass.items)
    /\ \A w \in Workers : wk[w].pc \in {"idle", "exited"}
\* A pass of several items run by two workers has returned.
C1_Witness ==
  /\ returned
  /\ pass.f.numWorkers = 2
  /\ Len(pass.items) >= 2
  /\ done = 1..Len(pass.items)
\* A pass without items has returned.
C1_WitnessNoLanes == returned /\ Len(pass.items) = 0 /\ pass.kind = "resizeWidth"

\* C2: one writer per destination.  No index of the float image, and none of
\* the target image, is written while processing two different items.  The
\* item of sample column col of a vertical pass writes only indices
\* col + d * dst.Stride; the item of (row, k) of a horizontal pass only
\* row * dst.Stride + k + 4 * d with 0 <= d < dstCanvasW; the item of row j of
\* an export only row j of the float image and of the target image.
C2_OneWriterPerIndex ==
  /\ \A a, b \in 1..Len(pass.items) :
        a # b => wrImg[a] \cap wrImg[b] = {} /\ wrOut[a] \cap wrOut[b] = {}
  /\ pass.kind = "resizeHeight" =>
        \A k \in 1..Len(pass.items) : \A idx \in wrImg[k] :
           \E d \in 0..(pass.f.dstCanvasH - 1) :
              idx = pass.items[k].lane + d * pass.dst.Stride
  /\ pass.kind = "resizeWidth" =>
        \A k \in 1..Len(pass.items) : \A idx \in wrImg[k] :
           \E d \in 0..(pass.f.dstCanvasW - 1) :
              idx = (pass.items[k].lane \div 4) * pass.dst.Stride
                      + (pass.items[k].lane % 4) + 4 * d
  /\ pass.kind = "convertDst" =>
        \A k \in 1..Len(pass.items) :
           /\ \A idx \in wrImg[k] : idx \div pass.dst.Stride = pass.items[k].lane
           /\ \A idx \in wrOut[k] : idx \div pass.raster.Stride = pass.items[k].lane
\* Two workers of a horizontal pass have each written samples of its image.
C2_Witness ==
  /\ pass.kind = "resizeWidth"
  /\ pass.f.numWorkers = 2
  /\ returned
  /\ \E a, b \in 1..Len(pass.items) : a # b /\ wrImg[a] # {} /\ wrImg[b] # {}
\* An export has written rows of both images.
C2_WitnessExport ==
  /\ pass.kind = "convertDst"
  /\ returned
  /\ \E a, b \in 1..Len(pass.items) : a # b /\ wrOut[a] # {} /\ wrOut[b] # {}

\* C3: every pass terminates and leaks no worker.  Under fair scheduling the
\* coordinator eventually returns; when it has returned every worker has
\* received exactly one stop item and has exited; and fp.numWorkers, as
\* resizeMain sets it, is at least 1.
C3_PassTerminates ==
  /\ <>returned
  /\ [](returned => \A w \in Workers : wk[w].pc = "exited" /\ wk[w].stops = 1)
  /\ [](pass.f.numWorkers >= 1)
\* A pass of two workers has returned and both have exited.
C3_Witness ==
  /\ returned
  /\ pass.f.numWorkers = 2
  /\ Len(pass.items) > 0
  /\ \A w \in Workers : wk[w].pc = "exited" /\ wk[w].stops = 1

\* The samples and bytes the export pass of the same call leaves when
\* GOMAXPROCS is 1.
ExportWithOneWorker ==
  LET Last(ps) == SeqPass(ps[Len(ps)])
  IN  Last(PassesOfCall(fp, heap, 1, ret.entry, ret.flags))
\* C8: determinism across schedules.  For a fixed source, configuration and
\* format, the bytes an export pass leaves in the target image are the same
\* for every interleaving of its workers and for every fp.numWorkers: they
\* are the bytes the call leaves there with one worker.
C8_SameBytesForEveryNumWorkers ==
  returned /\ pass.kind = "convertDst" => out = ExportWithOneWorker.out

\* ---------------------------------------- the converters and the modes
\* One FPObject whose caller also sets the colour converters, their flags
\* and the virtual-pixel mode.  At most MaxSetters setter calls are made.
ConvSources == {1, 3, 6}
\* A target of two pixels and one of 32769: the second is large enough for an
\* output table with any number of workers.
ConvRects == { Rect(0, 0, 2, 1), Rect(0, 0, 32769, 1) }
ConvFlags == { 0, CCFFlagNoCache, CCFFlagWholePixels }

ConvInit ==
  /\ \E i \in ConvSources : fp = New(i, "triangle")
  /\ heap = << >>
  /\ ret = NoReturn
  /\ log = << >>
  /\ calls = 0
  /\ okCalls = 0
  /\ ingests = 0
  /\ ingested = NilImage
  /\ procs \in 1..MaxProcs
  /\ target = ZR
  /\ asked = NothingAsked
  /\ PoolIdle

\* A counted setter call: fp becomes f, the caller's record a.
CountedSetter(f, a) ==
  /\ asked.setters < MaxSetters
  /\ Setter(f)
  /\ asked' = [a EXCEPT !.setters = asked.setters + 1]

CallSetInputColorConverter ==
  \E ccf \in {"nil", "SRGBToLinear"} :
     /\ CountedSetter(SetInputColorConverter(fp, ccf), [asked EXCEPT !.inputCCF = ccf])
     /\ target' = target
CallSetOutputColorConverter ==
  \E ccf \in {"nil", "LinearTosRGB"} :
     /\ CountedSetter(SetOutputColorConverter(fp, ccf), [asked EXCEPT !.outputCCF = ccf])
     /\ target' = target
CallSetInputColorConverterFlags ==
  \E flags \in ConvFlags :
     CountedSetter(SetInputColorConverterFlags(fp, flags), asked) /\ target' = target
CallSetOutputColorConverterFlags ==
  \E flags \in ConvFlags :
     CountedSetter(SetOutputColorConverterFlags(fp, flags), asked) /\ target' = target
CallSetVirtualPixels ==
  \E n \in {VirtualPixelsNone, VirtualPixelsTransparent} :
     CountedSetter(SetVirtualPixels(fp, n), AskedMode(asked, n)) /\ target' = target
CallSetTargetBoundsCounted ==
  \E r \in ConvRects :
     /\ CountedSetter(SetTargetBounds(fp, r), AskedMode(asked, VirtualPixelsNone))
     /\ target' = r
CallSetTargetBoundsAdvancedCounted ==
  \E a \in AdvancedTargets :
     /\ CountedSetter(SetTargetBoundsAdvanced(fp, a.r, a.x1, a.y1, a.x2, a.y2),
                      AskedMode(asked, VirtualPixelsTransparent))
     /\ target' = a.r

ConvNext ==
  \/ CallSetInputColorConverter
  \/ CallSetOutputColorConverter
  \/ CallSetInputColorConverterFlags
  \/ CallSetOutputColorConverterFlags
  \/ CallSetVirtualPixels
  \/ CallSetTargetBoundsCounted
  \/ CallSetTargetBoundsAdvancedCounted
  \/ CallResize
  \/ CallResizeToNRGBA
  \/ CallResizeToRGBA
  \/ CallResizeToNRGBA64
  \/ CallResizeToRGBA64
  \/ CallResizeToImage

ConvSpec == ConvInit /\ [][ConvNext]_vars

\* Whether the call whose log is l reached its export, and whether the export
\* then built an output table.
Exported(l) == \E k \in 1..Len(l) : l[k] = "export"
ExportBuiltTable(l) == \E k \in 1..(Len(l) - 1) : l[k] = "export" /\ l[k + 1] = "lut"
\* What decides, for the object f, whether an output table is wanted.
OutputTableWanted(f) ==
  /\ f.outputCCF # "nil"
  /\ (f.outputCCFFlags \div CCFFlagNoCache) % 2 = 0
  /\ (f.outputCCFFlags \div CCFFlagWholePixels) % 2 = 0
  /\ f.dstCanvasW * f.dstCanvasH >= (outputLUT_Size \div 4) * f.numWorkers

\* C11: an export to a format that uses an output table (NRGBA, RGBA, Gray)
\* builds the table iff outputCCF is non-nil, neither CCFFlagNoCache nor
\* CCFFlagWholePixels is set in outputCCFFlags and the target has at least
\* (tableSize/4)*numWorkers pixels, whatever inputCCF is; and no export
\* invokes a nil outputCCF (which panics).
C11_OutputTableIndependent ==
  [][calls' = calls + 1 /\ Exported(log')
       => /\ ~ret'.panic
          /\ ret'.img.type \in {"NRGBA", "RGBA", "Gray"}
               => (ExportBuiltTable(log') <=> OutputTableWanted(fp'))]_vars

\* What the image given to New is: whether its type carries colour, and
\* whether one of its pixels is not opaque.
SourceHasColor == SrcImages[GivenImage].type \notin {"Gray", "Gray16"}
SourceHasTransparency ==
  LET src == SrcImages[GivenImage]
  IN  IF ~src.tracked THEN src.someTransparent
      ELSE /\ src.type = "NRGBA"
           /\ \E i \in 0..(Dx(src.Rect) * Dy(src.Rect) - 1) : src.Pix[4 * i + 3] < 255
\* The channels (0 = R, ..., 3 = A) to process according to the claim, for the
\* source given and the mode the caller asked for last.
ExpectedChannels ==
  {0} \cup (IF SourceHasColor THEN {1, 2} ELSE {})
      \cup (IF SourceHasTransparency \/ asked.virtualPixels = VirtualPixelsTransparent
            THEN {3} ELSE {})
\* The channels of the lanes a pass enqueues.
LaneChannels(items) == { items[k].lane % 4 : k \in 1..Len(items) }
\* Whether the images of the object f are small enough for their lanes to be
\* listed.
LanesListed(f) == f.srcW * f.srcH <= 4 /\ f.dstCanvasW * f.dstCanvasH <= 6
\* The lanes the two passes of the call that left f and h enqueued: the call
\* allocated the intermediate and the final image behind the cached one.
HeightLanes(f, h) ==
  resizeHeightItems(f, h[f.srcFPImage + (IF heightFirst(f) THEN 0 ELSE 1)])
WidthLanes(f, h) ==
  resizeWidthItems(f, h[f.srcFPImage + (IF heightFirst(f) THEN 1 ELSE 0)],
                   h[f.srcFPImage + (IF heightFirst(f) THEN 2 ELSE 1)])

\* C14: every Resize* call that returns an image computes the channel mask
\* anew: A is processed iff the source has a pixel that is not opaque or the
\* mode asked for last is Transparent, G and B iff the source's type carries
\* colour, R always; both passes enqueue the lanes of exactly these channels.
\* So a call in mode None after a call in mode Transparent does not process A
\* for an opaque source.
C14_MaskRecomputed ==
  [][calls' = calls + 1 /\ ret'.err = "" /\ ~ret'.panic
       => /\ { k \in 0..3 : fp'.channelInfo[k + 1] } = ExpectedChannels
          /\ fp'.mustProcessTransparency = (3 \in ExpectedChannels)
          /\ fp'.mustProcessColor = (1 \in ExpectedChannels)
          /\ LanesListed(fp')
               => /\ LaneChannels(HeightLanes(fp', heap')) = ExpectedChannels
                  /\ LaneChannels(WidthLanes(fp', heap')) = ExpectedChannels]_vars
\* A second call has returned an image of an opaque source in mode None and
\* did not process A, after a first call made in mode Transparent.
C14_Witness ==
  /\ calls = 2
  /\ okCalls = 2
  /\ asked.resized = << VirtualPixelsTransparent, VirtualPixelsNone >>
  /\ ~SourceHasTransparency
  /\ ~fp.channelInfo[4]
  /\ LanesListed(fp)
  /\ 3 \notin LaneChannels(WidthLanes(fp, heap))

\* A Resize* call has just returned an image.
JustResized == ret.entry # "" /\ ret.err = "" /\ ~ret.panic

\* C15: the virtual-pixel mode in effect is the one set by the last of
\* SetTargetBounds (None), SetTargetBoundsAdvanced (Transparent) and
\* SetVirtualPixels; after a Resize* call that returned an image in mode
\* Transparent HasTransparency() is true, also for an opaque source, and
\* after one in mode None it is true only if the source has a pixel that is
\* not opaque.
C15_HasTransparencyAfterTransparentMode ==
  /\ fp.virtualPixels = asked.virtualPixels
  /\ JustResized
       => HasTransparency(fp)
            = (asked.virtualPixels = VirtualPixelsTransparent \/ SourceHasTransparency)
\* An opaque source resized in mode Transparent, the mode set by
\* SetVirtualPixels after SetTargetBounds: HasTransparency() is true.
C15_Witness ==
  /\ JustResized
  /\ target \in ConvRects
  /\ fp.dstOffsetX = 0
  /\ asked.virtualPixels = VirtualPixelsTransparent
  /\ ~SourceHasTransparency
  /\ HasTransparency(fp)

\* The converters a resize is to use according to the claim: the one the
\* caller set last, nil included, and the package's default when the caller
\* never called the setter.
ExpectedInputCCF == IF asked.inputCCF = "unset" THEN "SRGBToLinear" ELSE asked.inputCCF
ExpectedOutputCCF == IF asked.outputCCF = "unset" THEN "LinearTosRGB" ELSE asked.outputCCF

\* C16: a Resize* call that passes the target check leaves as input converter
\* the one given to the last SetInputColorConverter, nil included, and
\* SRGBToLinear only if that setter was never called; likewise the output
\* converter and LinearTosRGB.  Between the calls a converter the caller set
\* stays what it was set to.
C16_DefaultsRespectNil ==
  [][/\ calls' = calls + 1 /\ ret'.err # "Target image too large"
          => fp'.inputCCF = ExpectedInputCCF /\ fp'.outputCCF = ExpectedOutputCCF
     /\ asked'.inputCCF # "unset" => fp'.inputCCF = asked'.inputCCF
     /\ asked'.outputCCF # "unset" => fp'.outputCCF = asked'.outputCCF]_vars
\* Two calls have returned; the caller set the output converter to nil after
\* the first, which had installed the default, and never set the input
\* converter.
C16_Witness ==
  /\ calls = 2
  /\ okCalls = 2
  /\ asked.setters = 2
  /\ Len(asked.resized) = 2
  /\ asked.outputCCF = "nil" /\ fp.outputCCF = "nil"
  /\ asked.inputCCF = "unset" /\ fp.inputCCF = "SRGBToLinear"
  /\ ingests = 1

\* Whether flag b (a power of two) is set in flags.
FlagSet(flags, b) == (flags \div b) % 2 = 1
\* The type of the image ResizeToImage(flags) returns according to the claim.
ExpectedImageType(flags) ==
  LET gray == /\ FlagSet(flags, ResizeFlagGrayOK)
              /\ ExpectedChannels = {0}
      wide == FlagSet(flags, ResizeFlag16Bit)
  IN  CASE gray /\ wide -> "Gray16"
        [] gray /\ ~wide -> "Gray"
        [] ~gray /\ FlagSet(flags, ResizeFlagUnassocAlpha) /\ wide -> "NRGBA64"
        [] ~gray /\ FlagSet(flags, ResizeFlagUnassocAlpha) /\ ~wide -> "NRGBA"
        [] ~gray /\ ~FlagSet(flags, ResizeFlagUnassocAlpha) /\ wide -> "RGBA64"
        [] ~gray /\ ~FlagSet(flags, ResizeFlagUnassocAlpha) /\ ~wide -> "RGBA"

\* C20: the image ResizeToImage(flags) returns is Gray or Gray16 iff
\* ResizeFlagGrayOK is set and neither colour nor transparency is processed;
\* otherwise NRGBA or NRGBA64 when ResizeFlagUnassocAlpha is set and RGBA or
\* RGBA64 when it is not; it has 16 bits a sample exactly when ResizeFlag16Bit
\* is set.  A gray source resized in mode Transparent never yields Gray.
C20_ImageTypeFromFlagsAndMask ==
  JustResized /\ ret.entry = "Image" => ret.img.type = ExpectedImageType(ret.flags)
\* ResizeToImage(GrayOK | 16Bit) on a gray, opaque source in mode Transparent
\* has returned an RGBA64 image.
C20_Witness ==
  /\ JustResized
  /\ ret.entry = "Image"
  /\ ret.flags = ResizeFlagGrayOK + ResizeFlag16Bit
  /\ ~SourceHasColor
  /\ ~SourceHasTransparency
  /\ asked.virtualPixels = VirtualPixelsTransparent
  /\ ret.img.type = "RGBA64"

\* ------------------------------------------------- the path of a pixel
\* Two neighbouring pixels of a source row are converted by the row function
\* of the source's type, one pixel of the target row is resampled from them,
\* and the row function of the target format converts it.  The pixels belong
\* to a 2x1 image enlarged to 4x1, or are the first pixels of a row of a
\* PixBigW x PixBigH image enlarged to twice its width, which is large enough
\* for every table.
\*   fp    the object, inside resizeMain
\*   pass  [kind, type, fmt, opaque]: how far the pixels have come ("start",
\*         "ingested", "resampled", "exported"), the source's type, the target
\*         format, and whether both source pixels are opaque
\*   img   the float samples: of the two source pixels, then of the target pixel
\*   out   the bytes stored for the target pixel
PixBigW == 1000
PixBigH == 50

\* The object when resizeMain comes to the ingest.
PixObject(big, ccfIn, ccfOut, n) ==
  LET w == IF big THEN PixBigW ELSE 2
      h == IF big THEN PixBigH ELSE 1
      f0 == [New(2, "triangle") EXCEPT !.srcBounds = Rect(0, 0, w, h), !.srcW = w, !.srcH = h]
      f1 == SetOutputColorConverter(SetInputColorConverter(f0, ccfIn), ccfOut)
      f2 == SetVirtualPixels(SetTargetBounds(f1, Rect(0, 0, 2 * w, h)), n)
  IN  [f2 EXCEPT !.numWorkers = numWorkersFor(1, f2.maxWorkers)]

PixInit ==
  /\ \E big \in BOOLEAN, ccfIn \in {"nil", "SRGBToLinear"}, ccfOut \in {"nil", "LinearTosRGB"},
        n \in {VirtualPixelsNone, VirtualPixelsTransparent} :
        fp = PixObject(big, ccfIn, ccfOut, n)
  /\ heap = << >>
  /\ ret = NoReturn
  /\ log = << >>
  /\ calls = 0
  /\ okCalls = 0
  /\ ingests = 0
  /\ ingested = NilImage
  /\ procs = 1
  /\ target = fp.dstBounds
  /\ asked = NothingAsked
  /\ pass = [kind |-> "start", type |-> "", fmt |-> "", opaque |-> FALSE]
  /\ sent = 0
  /\ returned = FALSE
  /\ wk = << >>
  /\ img = MakePix(8, TRUE)
  /\ out = << >>
  /\ flag = FALSE
  /\ wrImg = << >>
  /\ wrOut = << >>
  /\ done = {}

\* The pixels a source of each type may hold.
PixNRGBA ==
  { << 255, 255, 255, 255 >>, << 255, 128, 0, 255 >>, << 255, 255, 255, 1 >>,
    << 0, 0, 0, 0 >>, << 200, 100, 50, 128 >> }
PixRGBA ==
  { << 255, 255, 255, 255 >>, << 128, 64, 0, 255 >>, << 1, 1, 0, 1 >>,
    << 0, 0, 0, 0 >>, << 100, 50, 25, 128 >> }
PixYCbCr == { << 255, 255, 255 >>, << 0, 0, 0 >>, << 255, 128, 0 >> }
PixGray == { << 0 >>, << 1 >>, << 128 >>, << 255 >> }
PixGray16 ==
  { << 65535, 65535, 65535, 65535 >>, << 257, 257, 257, 65535 >>, << 0, 0, 0, 65535 >> }
PixOther ==
  { << 65535, 32768, 0, 65535 >>, << 0, 0, 0, 0 >>, << 100, 50, 0, 200 >>,
    << 65535, 65535, 65535, 65534 >> }

\* The rows of the source have been converted: a and b are the samples the
\* row function stored for the two pixels, transp whether it set
\* fp.srcHasTransparency.  resizeMain then sets the channel mask.
PixIngested(type, a, b, transp) ==
  /\ pass.kind = "start"
  /\ img' = Slice([i \in 0..7 |-> IF i < 4 THEN a[i + 1] ELSE b[i - 3]])
  /\ fp' = setChannelInfo([fp EXCEPT !.srcHasColor = type \notin {"Gray", "Gray16"},
                                    !.srcHasTransparency = transp])
  /\ pass' = [kind |-> "ingested", type |-> type, fmt |-> "", opaque |-> ~transp]
  /\ UNCHANGED << heap, ret, log, calls, okCalls, ingests, ingested, procs, target, asked >>
  /\ UNCHANGED << sent, returned, wk, out, flag, wrImg, wrOut, done >>

ConvertSrcPixels_NRGBA ==
  \E a \in PixNRGBA, b \in PixNRGBA :
     \E wc \in { convertSrcContext(fp, [type |-> "NRGBA"]) } :
        PixIngested("NRGBA", convertSrcPixel_NRGBA(fp, wc, a),
                    convertSrcPixel_NRGBA(fp, wc, b), a[4] < 255 \/ b[4] < 255)
ConvertSrcPixels_RGBA ==
  \E a \in PixRGBA, b \in PixRGBA :
     \E wc \in { convertSrcContext(fp, [type |-> "RGBA"]) } :
        PixIngested("RGBA", convertSrcPixel_RGBA(fp, wc, a),
                    convertSrcPixel_RGBA(fp, wc, b), a[4] < 255 \/ b[4] < 255)
ConvertSrcPixels_YCbCr ==
  \E a \in PixYCbCr, b \in PixYCbCr :
     \E wc \in { convertSrcContext(fp, [type |-> "YCbCr"]) } :
        PixIngested("YCbCr", convertSrcPixel_YCbCr(fp, wc, a),
                    convertSrcPixel_YCbCr(fp, wc, b), FALSE)
ConvertSrcPixels_Gray ==
  \E a \in PixGray, b \in PixGray :
     \E wc \in { convertSrcContext(fp, [type |-> "Gray"]) } :
        PixIngested("Gray", convertSrcPixel_Gray(fp, wc, a[1]),
                    convertSrcPixel_Gray(fp, wc, b[1]), FALSE)
ConvertSrcPixels_Any ==
  \E type \in {"Gray16", "NRGBA64"} :
     \E a \in (IF type = "Gray16" THEN PixGray16 ELSE PixOther),
        b \in (IF type = "Gray16" THEN PixGray16 ELSE PixOther) :
        \E wc \in { convertSrcContext(fp, [type |-> type]) } :
           PixIngested(type, convertSrcPixel_Any(fp, wc, a),
                       convertSrcPixel_Any(fp, wc, b), a[4] < 65535 \/ b[4] < 65535)

\* The object with the sizes of the two pixels' neighbourhood: 2x1 to 4x1.
PixWindow(f) ==
  [SetVirtualPixels(SetTargetBounds([f EXCEPT !.srcW = 2, !.srcH = 1], Rect(0, 0, 4, 1)),
                    f.virtualPixels)
     EXCEPT !.dstBounds = f.dstBounds]
\* resizeWidth on the two pixels: one of the four target pixels.
ResamplePixel ==
  /\ pass.kind = "ingested"
  /\ \E d \in 0..3 :
        \E dst \in { resizeWidth(PixWindow(fp),
                                 [MakeFPImage(2, 1, TRUE) EXCEPT !.Pix = img]) } :
           img' = Slice([i \in 0..3 |-> dst.Pix[4 * d + i]])
  /\ pass' = [pass EXCEPT !.kind = "resampled"]
  /\ UNCHANGED objVars
  /\ UNCHANGED << sent, returned, wk, out, flag, wrImg, wrOut, done >>

\* convertDst_* on the target pixel.  convertDst_Gray and convertDst_Gray16
\* are called by ResizeToImage alone, for an image without colour and
\* transparency.  A convertDst_* that panics stores nothing.
ConvertDstPixel(fmt) ==
  /\ pass.kind = "resampled"
  /\ fmt \in {"Gray", "Gray16"} => ~fp.mustProcessColor /\ ~fp.mustProcessTransparency
  /\ \E wc \in { convertDstContext(fp, fmt) } :
        /\ ~((wc.outputLUT_Xto8 \/ wc.outputLUT_Xto32) /\ fp.outputCCF = "nil")
        /\ \E r \in { convertDstPixel(fp, wc, PixelAt(img, 0)) } :
              /\ img' = Slice([i \in 0..3 |-> r.sam[i + 1]])
              /\ out' = r.out
  /\ pass' = [pass EXCEPT !.kind = "exported", !.fmt = fmt]
  /\ UNCHANGED objVars
  /\ UNCHANGED << sent, returned, wk, flag, wrImg, wrOut, done >>

ConvertDstPixel_FP == ConvertDstPixel("FP")
ConvertDstPixel_NRGBA == ConvertDstPixel("NRGBA")
ConvertDstPixel_RGBA == ConvertDstPixel("RGBA")
ConvertDstPixel_NRGBA64 == ConvertDstPixel("NRGBA64")
ConvertDstPixel_RGBA64 == ConvertDstPixel("RGBA64")
ConvertDstPixel_Gray == ConvertDstPixel("Gray")
ConvertDstPixel_Gray16 == ConvertDstPixel("Gray16")

PixNext ==
  \/ ConvertSrcPixels_NRGBA
  \/ ConvertSrcPixels_RGBA
  \/ ConvertSrcPixels_YCbCr
  \/ ConvertSrcPixels_Gray
  \/ ConvertSrcPixels_Any
  \/ ResamplePixel
  \/ ConvertDstPixel_FP
  \/ ConvertDstPixel_NRGBA
  \/ ConvertDstPixel_RGBA
  \/ ConvertDstPixel_NRGBA64
  \/ ConvertDstPixel_RGBA64
  \/ ConvertDstPixel_Gray
  \/ ConvertDstPixel_Gray16

PixSpec == PixInit /\ [][PixNext]_vars

\* The stored alpha and the stored R, G, B of the exported pixel: samples for
\* Resize, bytes for the 8-bit formats, uint16 values for the 16-bit ones.
StoredAlpha ==
  CASE pass.fmt = "FP" -> img[3]
    [] pass.fmt \in {"NRGBA", "RGBA"} -> out[4]
    [] pass.fmt \in {"NRGBA64", "RGBA64"} -> 256 * out[7] + out[8]
StoredColour ==
  CASE pass.fmt = "FP" -> << img[0], img[1], img[2] >>
    [] pass.fmt \in {"NRGBA", "RGBA"} -> << out[1], out[2], out[3] >>
    [] pass.fmt \in {"NRGBA64", "RGBA64"} ->
         << 256 * out[1] + out[2], 256 * out[3] + out[4], 256 * out[5] + out[6] >>

\* C12: in the image returned by Resize, ResizeToNRGBA, ResizeToRGBA,
\* ResizeToNRGBA64 or ResizeToRGBA64, a pixel whose stored alpha is 0 has
\* stored R, G and B of 0, also when its float alpha is positive and rounds
\* to 0.
C12_TransparentPixelsBlack ==
  pass.kind = "exported" /\ pass.fmt \in {"FP", "NRGBA", "RGBA", "NRGBA64", "RGBA64"}
    /\ StoredAlpha = 0
    => StoredColour = << 0, 0, 0 >>

\* ------------------------------------------------------ the weight lists
\* createWeightList for the objects the setters make of the small sources:
\* a canvas, the corners of the image on it, and the virtual-pixel mode.
\*   fp    the object
\*   pass  [kind, isVertical, weightList, calls, weightsUsed, cap, panic]:
\*         "start", or "weights" with the list createWeightList(isVertical)
\*         returned, the calls of filter.F it made per destination sample,
\*         the entries it added and the capacity it had allocated
WeightSources == {1, 2, 3}
WeightCanvases == { Rect(0, 0, 2, 3), Rect(0, 0, 3, 1), Rect(1, 1, 4, 3) }
\* The first corner and the extent of the image, numerators over CoordDen.
WeightCorners == {-1, 0, 3}
WeightExtents == {2, 4, 5}

WeightInit ==
  /\ \E i \in WeightSources, r \in WeightCanvases, x1 \in WeightCorners, y1 \in WeightCorners,
        w \in WeightExtents, h \in WeightExtents,
        n \in {VirtualPixelsNone, VirtualPixelsTransparent} :
        /\ fp = SetVirtualPixels(
                  SetTargetBoundsAdvanced(New(i, "triangle"), r, x1, y1, x1 + w, y1 + h), n)
        /\ target = r
        /\ asked = AskedMode(NothingAsked, n)
  /\ heap = << >>
  /\ ret = NoReturn
  /\ log = << >>
  /\ calls = 0
  /\ okCalls = 0
  /\ ingests = 0
  /\ ingested = NilImage
  /\ procs = 1
  /\ pass = [kind |-> "start", isVertical |-> FALSE, weightList |-> << >>]
  /\ sent = 0
  /\ returned = FALSE
  /\ wk = << >>
  /\ img = << >>
  /\ out = << >>
  /\ flag = FALSE
  /\ wrImg = << >>
  /\ wrOut = << >>
  /\ done = {}

CreateWeightList(isVertical) ==
  /\ pass.kind = "start"
  /\ LET \* "weightList[weightsUsed]" past the capacity is an index out of range
         Made(t, l) ==
           [kind |-> "weights", isVertical |-> isVertical,
            weightList |-> IF Len(l) > t.cap THEN << >> ELSE l,
            calls |-> t.calls, weightsUsed |-> Len(l), cap |-> t.cap,
            panic |-> Len(l) > t.cap]
     IN  pass' = Made(createWeightListCalls(fp, isVertical), createWeightList(fp, isVertical))
  /\ UNCHANGED objVars
  /\ UNCHANGED << sent, returned, wk, img, out, flag, wrImg, wrOut, done >>
CreateWeightListVertical == CreateWeightList(TRUE)
CreateWeightListHorizontal == CreateWeightList(FALSE)

WeightNext ==
  \/ CreateWeightListVertical
  \/ CreateWeightListHorizontal

WeightSpec == WeightInit /\ [][WeightNext]_vars

\* The entries of the list l whose dstSamIdx is d, and the sum of the weights
\* of a list of entries as a fraction [num, den] (0/1 for none).  The weights
\* made for one destination sample share their denominator.
EntriesFor(l, d) == SelectSeq(l, LAMBDA e : e.dstSamIdx = d)
RECURSIVE WeightNumSum(_)
WeightNumSum(es) == IF es = << >> THEN 0 ELSE Head(es).weight[1] + WeightNumSum(Tail(es))
WeightTotal(es) ==
  IF es = << >> THEN [num |-> 0, den |-> 1]
  ELSE [num |-> WeightNumSum(es), den |-> es[1].weight[2]]
\* Whether the fraction t is 1 within 1e-5.
IsOneWithin(t) == Abs(t.num - t.den) * 100000 <= Abs(t.den)
\* The number of destination samples of the list's dimension.
WeightCanvasN == IF pass.isVertical THEN fp.dstCanvasH ELSE fp.dstCanvasW
HasVirtualEntry(l) == \E k \in 1..Len(l) : l[k].srcSamIdx = -1

ExportUsedTable ==
  LET wc == convertDstContext(fp, pass.fmt)
  IN  (wc.outputLUT_Xto8 \/ wc.outputLUT_Xto32) /\ fp.outputCCF # "nil" /\ StoredAlpha > 0

\* C17: in the image returned by ResizeToRGBA or ResizeToRGBA64, with the
\* default or a nil output converter, every pixel's stored R, G and B are at
\* most its stored A, with and without an output table.
C17_PremultipliedAtMostAlpha ==
  pass.kind = "exported" /\ pass.fmt \in {"RGBA", "RGBA64"}
    => \A k \in 1..3 : StoredColour[k] <= StoredAlpha
\* A pixel exported by ResizeToRGBA through the output table, partly
\* transparent, whose R is as large as its A.
C17_Witness ==
  /\ pass.kind = "exported"
  /\ pass.fmt = "RGBA"
  /\ ExportUsedTable
  /\ StoredAlpha > 0 /\ StoredAlpha < 255
  /\ StoredColour[1] = StoredAlpha
  /\ StoredColour[3] < StoredAlpha

\* Whether the ingest of the pixels had an input table.
IngestHadTable ==
  LET wc == convertSrcContext(fp, [type |-> pass.type])
  IN  fp.inputCCF # "nil" /\ (wc.inputLUT_8to32 \/ wc.inputLUT_16to32)

\* C18: when every source pixel is opaque, every pixel convertSrc stores has
\* the alpha sample 1, for a source of type NRGBA, RGBA, YCbCr, Gray, Gray16
\* and any other type, with and without an input converter and input table.
C18_OpaqueIngest ==
  pass.kind = "ingested" /\ pass.opaque => img[3] = FPOne /\ img[7] = FPOne
\* Opaque pixels of a source of another type than the five named, converted
\* through the 16-bit input table.
C18_Witness ==
  /\ pass.kind = "ingested"
  /\ pass.opaque
  /\ pass.type = "NRGBA64"
  /\ IngestHadTable
  /\ img[3] = FPOne
  /\ img[0] > img[1]

\* C19: when the source's type is Gray or Gray16 (srcHasColor is false and
\* only channel R is resampled), every pixel of the image returned by
\* ResizeToNRGBA or ResizeToRGBA has equal R, G and B bytes, with and without
\* an output table and with and without transparency processing.
C19_GrayStaysGray ==
  pass.kind = "exported" /\ pass.fmt \in {"NRGBA", "RGBA"} /\ pass.type \in {"Gray", "Gray16"}
    => out[1] = out[2] /\ out[2] = out[3]
\* A pixel of a Gray source exported by ResizeToRGBA through the output
\* table, with transparency processed: partly transparent and not black.
C19_Witness ==
  /\ pass.kind = "exported"
  /\ pass.fmt = "RGBA"
  /\ pass.type = "Gray"
  /\ ~fp.mustProcessColor
  /\ fp.mustProcessTransparency
  /\ ExportUsedTable
  /\ out[4] > 0 /\ out[4] < 255
  /\ out[1] > 0 /\ out[1] = out[2] /\ out[2] = out[3]

\* --------------------------------------------- the filters and the blur
\* createWeightList for objects that also have a filter and a blur set: the
\* filters of the package with an exact value, a filter of the caller's that
\* is not even, and blurs 0.5, 1 and 1.5.
FilterNames == {"triangle", "hermite", "catmullrom", "ramp", "box"}
\* Blurs, numerators over CoordDen.
FilterBlurs == {1, 2, 3}
FilterCanvases == { Rect(0, 0, 2, 3), Rect(0, 0, 5, 1), Rect(1, 1, 4, 3) }
\* The extent of the image in X and Y, numerators over CoordDen.
FilterExtents == { << 1, 4 >>, << 2, 5 >>, << 4, 1 >>, << 5, 9 >> }

FilterInit ==
  /\ \E i \in WeightSources, r \in FilterCanvases, c \in WeightCorners, e \in FilterExtents,
        n \in {VirtualPixelsNone, VirtualPixelsTransparent},
        filter \in FilterNames, blur \in FilterBlurs :
        /\ fp = SetVirtualPixels(
                  SetTargetBoundsAdvanced(SetBlur(SetFilter(New(i, "triangle"), filter), blur),
                                          r, c, c, c + e[1], c + e[2]), n)
        /\ target = r
        /\ asked = AskedMode(NothingAsked, n)
  /\ heap = << >>
  /\ ret = NoReturn
  /\ log = << >>
  /\ calls = 0
  /\ okCalls = 0
  /\ ingests = 0
  /\ ingested = NilImage
  /\ procs = 1
  /\ pass = [kind |-> "start", isVertical |-> FALSE, weightList |-> << >>]
  /\ sent = 0
  /\ returned = FALSE
  /\ wk = << >>
  /\ img = << >>
  /\ out = << >>
  /\ flag = FALSE
  /\ wrImg = << >>
  /\ wrOut = << >>
  /\ done = {}

FilterSpec == FilterInit /\ [][WeightNext]_vars

\* The calls of filter.F made for the list, all destination samples together.
AllFilterCalls ==
  ConcatRange([d \in 1..Len(pass.calls) |-> pass.calls[d].calls], 1, Len(pass.calls))
FilterIsAsymmetric == (FilterFlags(fp.filterGetter) \div FilterFlagAsymmetric) % 2 = 1

\* C21: for every (s, d) pair createWeightList evaluates, filter.F receives
\* |arg| (never a negative argument) unless the filter's Flags has
\* FilterFlagAsymmetric set, and then it receives the signed arg; a filter
\* whose Flags is nil counts as having no flags.
C21_FilterArgument ==
  pass.kind = "weights"
    => \A k \in 1..Len(AllFilterCalls) :
          LET c == AllFilterCalls[k]
          IN  IF FilterIsAsymmetric THEN c.arg = c.signed
              ELSE c.arg = Abs(c.signed) /\ c.arg >= 0
\* A list made with the filter that is not even: F was called with a
\* negative and with a positive argument, and returned different values for
\* arguments of the same size.
C21_Witness ==
  /\ pass.kind = "weights"
  /\ FilterIsAsymmetric
  /\ \E k, m \in 1..Len(AllFilterCalls) :
        /\ AllFilterCalls[k].arg < 0
        /\ AllFilterCalls[m].arg = -AllFilterCalls[k].arg
        /\ AllFilterCalls[m].num # AllFilterCalls[k].num
        /\ AllFilterCalls[m].num > 0
\* A list made with a filter whose Flags is nil, for which a computed arg was
\* negative.
C21_WitnessEven ==
  /\ pass.kind = "weights"
  /\ fp.filterGetter = "catmullrom"
  /\ \E k \in 1..Len(AllFilterCalls) :
        AllFilterCalls[k].signed < 0 /\ AllFilterCalls[k].num < 0

\* ------------------------------------------------- the target rectangles
\* One FPObject whose caller sets targets that are empty in one or in both
\* dimensions (and one that is not), sets the virtual-pixel mode, and
\* resizes.  At most MaxSetters setter calls are made.
BoundsSources == {1, 3}
BoundsRects ==
  { Rect(7, 7, 7, 7), Rect(3, 4, 3, 9), Rect(2, 2, -1, 4), Rect(0, 0, 3, -2),
    Rect(1, 1, 3, 2) }

BoundsInit ==
  /\ \E i \in BoundsSources : fp = New(i, "triangle")
  /\ heap = << >>
  /\ ret = NoReturn
  /\ log = << >>
  /\ calls = 0
  /\ okCalls = 0
  /\ ingests = 0
  /\ ingested = NilImage
  /\ procs \in 1..MaxProcs
  /\ target = ZR
  /\ asked = NothingAsked
  /\ PoolIdle

CallSetTargetBoundsOfAny ==
  \E r \in BoundsRects :
     /\ CountedSetter(SetTargetBounds(fp, r), AskedMode(asked, VirtualPixelsNone))
     /\ target' = r
\* The image's corners are given relative to the rectangle's Min, as
\* numerators over CoordDen.
CallSetTargetBoundsAdvancedOfAny ==
  \E r \in BoundsRects :
     /\ CountedSetter(SetTargetBoundsAdvanced(fp, r, CoordDen * r.Min.X - 1,
                                               CoordDen * r.Min.Y,
                                               CoordDen * r.Min.X + 4,
                                               CoordDen * r.Min.Y + 3),
                      AskedMode(asked, VirtualPixelsTransparent))
     /\ target' = r

BoundsNext ==
  \/ CallSetTargetBoundsOfAny
  \/ CallSetTargetBoundsAdvancedOfAny
  \/ CallSetVirtualPixels
  \/ CallResize
  \/ CallResizeToNRGBA
  \/ CallResizeToRGBA
  \/ CallResizeToNRGBA64
  \/ CallResizeToRGBA64
  \/ CallResizeToImage

BoundsSpec == BoundsInit /\ [][BoundsNext]_vars

\* A dimension of the rectangle the caller gave, grown to 1 when below 1.
AtLeastOne(n) == IF n < 1 THEN 1 ELSE n

\* C22: once SetTargetBounds or SetTargetBoundsAdvanced has been called, with
\* a rectangle whose width or height may be zero or negative, the stored
\* canvas has Min as given and each dimension below 1 grown to exactly 1
\* (the others as given), so dstCanvasW >= 1 and dstCanvasH >= 1 whatever
\* setters were called since; and a resize on such a rectangle returns no
\* error.
C22_TargetClamped ==
  target # ZR
    => /\ fp.dstBounds.Min = target.Min
       /\ fp.dstCanvasW = AtLeastOne(Dx(target))
       /\ fp.dstCanvasH = AtLeastOne(Dy(target))
       /\ Dx(fp.dstBounds) = fp.dstCanvasW /\ Dy(fp.dstBounds) = fp.dstCanvasH
       /\ fp.dstCanvasW >= 1 /\ fp.dstCanvasH >= 1
       /\ ret.entry # "" => ret.err = "" /\ ~ret.panic /\ ret.img.Rect = fp.dstBounds
\* A resize to a rectangle of negative width, after the mode was set: the
\* image returned is one pixel wide.
C22_Witness ==
  /\ target = Rect(2, 2, -1, 4)
  /\ asked.setters = 2
  /\ fp.virtualPixels = VirtualPixelsTransparent
  /\ ret.entry = "NRGBA"
  /\ ret.err = "" /\ ~ret.panic
  /\ ret.img.Rect = Rect(2, 2, 3, 4)
  /\ DOMAIN ret.img.Pix = 0..7

\* ------------------------------------------- after a source too large
SourceTooLarge == "Source image too large to process"

\* C23: after a Resize* call has failed with the source-too-large error the
\* object is as it was before the call, with srcFPImage still nil and srcImage
\* still set, and the next Resize* call on it fails with the same error again.
C23_SourceTooLargeRepeats ==
  /\ [](ret.err = SourceTooLarge => fp.srcFPImage = 0 /\ fp.srcImage # 0)
  /\ [][ret.err = SourceTooLarge /\ calls' = calls + 1
          => ret'.err = SourceTooLarge /\ ~ret'.panic]_vars

\* ------------------------------------------------------ the lookup tables
\* makeInputLUT_Xto32 and makeOutputLUT_Xto8/Xto32 on objects whose source
\* and target sizes lie on both sides of the sizes that decide on a table.
\*   fp    the object when resizeMain has set numWorkers and the converters
\*   pass  [kind, input, tableSize, built]: "start", or "table" with what
\*         the make*LUT function was asked for and whether it built a table
\* The numbers of pixels of the source and of the target.
TableSrcPixels == {63, 64, 127, 128, 16383, 16384, 32767, 32768}
TableDstPixels == {2470, 2471, 4941, 4942, 16383, 16384}

TableObject(srcN, dstN, ccfIn, ccfOut, flagsIn, flagsOut, gomaxprocs) ==
  LET f0 == [New(2, "triangle") EXCEPT !.srcBounds = Rect(0, 0, srcN, 1),
                                        !.srcW = srcN, !.srcH = 1]
      f1 == IF ccfIn = "unset" THEN f0 ELSE SetInputColorConverter(f0, ccfIn)
      f2 == IF ccfOut = "unset" THEN f1 ELSE SetOutputColorConverter(f1, ccfOut)
      f3 == SetOutputColorConverterFlags(SetInputColorConverterFlags(f2, flagsIn), flagsOut)
      f4 == SetTargetBounds(f3, Rect(0, 0, dstN, 1))
  IN  setDefaultConverters([f4 EXCEPT !.numWorkers = numWorkersFor(gomaxprocs, f4.maxWorkers)])

TableInit ==
  /\ procs \in 1..MaxProcs
  /\ \E srcN \in TableSrcPixels, dstN \in TableDstPixels,
        ccfIn \in {"nil", "unset"}, ccfOut \in {"nil", "unset"},
        flagsIn \in ConvFlags, flagsOut \in ConvFlags :
        /\ fp = TableObject(srcN, dstN, ccfIn, ccfOut, flagsIn, flagsOut, procs)
        /\ target = Rect(0, 0, dstN, 1)
        /\ asked = [NothingAsked EXCEPT !.inputCCF = ccfIn, !.outputCCF = ccfOut]
  /\ heap = << >>
  /\ ret = NoReturn
  /\ log = << >>
  /\ calls = 0
  /\ okCalls = 0
  /\ ingests = 0
  /\ ingested = NilImage
  /\ pass = [kind |-> "start", input |-> FALSE, tableSize |-> 0, built |-> FALSE]
  /\ sent = 0
  /\ returned = FALSE
  /\ wk = << >>
  /\ img = << >>
  /\ out = << >>
  /\ flag = FALSE
  /\ wrImg = << >>
  /\ wrOut = << >>
  /\ done = {}

TableAsked(input, tableSize, built) ==
  /\ pass.kind = "start"
  /\ pass' = [kind |-> "table", input |-> input, tableSize |-> tableSize, built |-> built]
  /\ UNCHANGED objVars
  /\ UNCHANGED << sent, returned, wk, img, out, flag, wrImg, wrOut, done >>
\* convertSrc: wc.inputLUT_8to32 = fp.makeInputLUT_Xto32(256), and
\* wc.inputLUT_16to32 = fp.makeInputLUT_Xto32(65536).
MakeInputLUT_8to32 == TableAsked(TRUE, 256, makeInputLUT_Xto32(fp, 256))
MakeInputLUT_16to32 == TableAsked(TRUE, 65536, makeInputLUT_Xto32(fp, 65536))
\* convertDst_*: fp.makeOutputLUT_Xto8(outputLUT_Size) and
\* fp.makeOutputLUT_Xto32(outputLUT_Size).
MakeOutputLUT_Xto8 == TableAsked(FALSE, outputLUT_Size, makeOutputLUT(fp, outputLUT_Size))

TableNext ==
  \/ MakeInputLUT_8to32
  \/ MakeInputLUT_16to32
  \/ MakeOutputLUT_Xto8

TableSpec == TableInit /\ [][TableNext]_vars

\* C24: an input table of size tableSize is built only when
\* srcW*srcH >= (tableSize/4)*numWorkers, and an output table only when
\* dstCanvasW*dstCanvasH >= 16384, whatever numWorkers is.
C24_TableThresholds ==
  pass.kind = "table" /\ pass.built
    => IF pass.input
       THEN fp.srcW * fp.srcH >= (pass.tableSize \div 4) * fp.numWorkers
       ELSE fp.dstCanvasW * fp.dstCanvasH >= 16384

\* --------------------------------------------- the alpha of a YCbCr source
\* The channels of the lanes that the two resampling passes of the pixels'
\* window enqueue: the samples of the ingested image that are read.
PixLanesRead ==
  LET src == MakeFPImage(2, 1, TRUE)
      Of(f) == LaneChannels(resizeHeightItems(f, src))
                 \cup LaneChannels(resizeWidthItems(f, src, resizeWidthDst(f, src)))
  IN  Of(PixWindow(fp))

\* C25: in every resize of a YCbCr source, in both virtual-pixel modes, no
\* resampling work item has the alpha channel (sample index 3 mod 4) of the
\* ingested image as its source lane: the alpha plane is never read.
C25_YCbCrAlphaNeverRead ==
  pass.kind \in {"ingested", "resampled"} /\ pass.type = "YCbCr" => 3 \notin PixLanesRead

\* C25, amended: convertSrcRow_YCbCr stores the alpha 1.0 for every pixel of
\* a YCbCr source; no resampling work item has the alpha channel as its
\* source lane in mode None, and in mode Transparent the alpha lanes are
\* resampled like the others (they read the 1.0 that was stored).
C25_YCbCrAlphaReadWhenTransparent ==
  pass.type = "YCbCr"
    => /\ pass.kind = "ingested" => img[3] = FPOne /\ img[7] = FPOne
       /\ pass.kind \in {"ingested", "resampled"}
            => (3 \in PixLanesRead <=> fp.virtualPixels = VirtualPixelsTransparent)
       /\ pass.kind = "resampled" /\ fp.virtualPixels = VirtualPixelsNone
            => img[3] = 0
       /\ pass.kind = "resampled" /\ fp.virtualPixels = VirtualPixelsTransparent
            => img[3] > 0
\* A pixel at the edge of the target of a YCbCr source in mode Transparent:
\* its alpha was resampled from the stored 1.0 and a virtual pixel.
C25_Witness ==
  /\ pass.kind = "resampled"
  /\ pass.type = "YCbCr"
  /\ fp.virtualPixels = VirtualPixelsTransparent
  /\ 3 \in PixLanesRead
  /\ img[3] > 0 /\ img[3] < FPOne

\* ------------------------------------------------- the rows of the ingest
\* The convertSrc pass of a first call, for sources with no, one and two rows
\* that hold a pixel that is not opaque, run by one and by two workers.
IngestCases ==
  { PoolCase(src, FALSE, Rect(1, 2, 3, 3), "NRGBA", 0, 1, FALSE) : src \in {1, 2, 3, 7} }
IngestInit == PoolInitOf(IngestCases) /\ pass.kind = "convertSrc"
IngestNext ==
  \/ \E w \in Workers : Receive(w)
  \/ \E w \in Workers : ReceiveStop(w)
  \/ \E w \in Workers : ConvertSrcRow(w)
IngestSpec == IngestInit /\ [][IngestNext]_vars

\* C26: when convertSrc returns, srcHasTransparency is true iff some source
\* pixel has an alpha below full scale, for every interleaving of the row
\* workers and one or more workers; a worker's write to the flag stores true
\* and never false; and the workers write nothing else in common: the rows
\* of the float image they write are disjoint.
C26_TransparencyDetected ==
  /\ [](returned => flag = SourceHasTransparency)
  /\ [](\A a, b \in 1..Len(pass.items) : a # b => wrImg[a] \cap wrImg[b] = {})
  /\ [][flag' # flag => flag']_vars
\* Two workers have converted the three rows of a source whose first and last
\* row hold a pixel that is not opaque.
C26_Witness ==
  /\ returned
  /\ pass.f.numWorkers = 2
  /\ pass.f.srcH = 3
  /\ flag
  /\ done = 1..3

\* ------------------------------------------------ the order of the passes
\* The resampling passes a call ran, in order, from its log.
ResamplingPasses(l) == SelectSeq(l, LAMBDA e : e \in {"resizeHeight", "resizeWidth"})
\* The image the first pass of the call that left f and h made, and the one
\* the second pass made: allocated behind the cached image, in this order.
FirstPassImage(f, h) == h[f.srcFPImage + 1]
SecondPassImage(f, h) == h[f.srcFPImage + 2]

\* C27: each successful resize runs exactly two passes, one per axis: the
\* height pass first iff dstCanvasW > srcW, otherwise (equal widths too) the
\* width pass first, whatever else the object holds; the first pass reads
\* the cached image, and the second pass the image the first one made.
C27_PassOrder ==
  [][calls' = calls + 1 /\ ret'.err = "" /\ ~ret'.panic
       => /\ ResamplingPasses(log')
               = IF fp'.dstCanvasW > fp'.srcW THEN << "resizeHeight", "resizeWidth" >>
                 ELSE << "resizeWidth", "resizeHeight" >>
          /\ Dx(FirstPassImage(fp', heap').Rect)
               = IF fp'.dstCanvasW > fp'.srcW THEN fp'.srcW ELSE fp'.dstCanvasW
          /\ Dy(FirstPassImage(fp', heap').Rect)
               = IF fp'.dstCanvasW > fp'.srcW THEN fp'.dstCanvasH ELSE fp'.srcH
          /\ Dx(SecondPassImage(fp', heap').Rect) = fp'.dstCanvasW
          /\ Dy(SecondPassImage(fp', heap').Rect) = fp'.dstCanvasH
          /\ LanesListed(fp')
               => FirstPassImage(fp', heap')
                    = IF fp'.dstCanvasW > fp'.srcW
                      THEN resizeHeight(fp', heap'[fp'.srcFPImage])
                      ELSE resizeWidth(fp', heap'[fp'.srcFPImage])]_vars
\* A resize to a target as wide as the source and higher has run the width
\* pass first.
C27_Witness ==
  /\ ret.entry # "" /\ ret.err = "" /\ ~ret.panic
  /\ fp.dstCanvasW = fp.srcW
  /\ fp.dstCanvasH > fp.srcH
  /\ ResamplingPasses(log) = << "resizeWidth", "resizeHeight" >>
\* A resize to a wider target has run the height pass first.
C27_WitnessWider ==
  /\ ret.entry # "" /\ ret.err = "" /\ ~ret.panic
  /\ fp.dstCanvasW > fp.srcW
  /\ ResamplingPasses(log) = << "resizeHeight", "resizeWidth" >>

\* ------------------------------------------------- postProcessRow
\* The pixels of the path above with a filter that has negative lobes, so
\* that a resampled sample may lie below 0 or above 1: two source pixels are
\* ingested, one of the four target pixels is resampled from them, and
\* postProcessRow handles it.  pass.before holds the pixel postProcessRow was
\* given.
PostFilters == {"triangle", "catmullrom"}
PostInit ==
  /\ \E filter \in PostFilters, ccfIn \in {"nil", "SRGBToLinear"},
        n \in {VirtualPixelsNone, VirtualPixelsTransparent} :
        fp = SetFilter(PixObject(FALSE, ccfIn, "nil", n), filter)
  /\ heap = << >>
  /\ ret = NoReturn
  /\ log = << >>
  /\ calls = 0
  /\ okCalls = 0
  /\ ingests = 0
  /\ ingested = NilImage
  /\ procs = 1
  /\ target = fp.dstBounds
  /\ asked = NothingAsked
  /\ pass = [kind |-> "start", type |-> "", fmt |-> "", opaque |-> FALSE]
  /\ sent = 0
  /\ returned = FALSE
  /\ wk = << >>
  /\ img = MakePix(8, TRUE)
  /\ out = << >>
  /\ flag = FALSE
  /\ wrImg = << >>
  /\ wrOut = << >>
  /\ done = {}

\* postProcessRow on the resampled pixel.
PostProcessRow ==
  /\ pass.kind = "resampled"
  /\ \E q \in { postProcessPixel(fp, PixelAt(img, 0)) } :
        img' = Slice([i \in 0..3 |-> q[i + 1]])
  /\ pass' = [kind |-> "postprocessed", type |-> pass.type, fmt |-> pass.fmt,
              opaque |-> pass.opaque, before |-> PixelAt(img, 0)]
  /\ UNCHANGED objVars
  /\ UNCHANGED << sent, returned, wk, out, flag, wrImg, wrOut, done >>

PostNext ==
  \/ ConvertSrcPixels_NRGBA
  \/ ConvertSrcPixels_RGBA
  \/ ConvertSrcPixels_Gray
  \/ ResamplePixel
  \/ PostProcessRow

PostSpec == PostInit /\ [][PostNext]_vars

\* The pixel postProcessRow was given, after the copy of the red sample to
\* green and blue that it makes first for an image without colour.
PostGiven ==
  IF fp.mustProcessColor THEN pass.before
  ELSE << pass.before[1], pass.before[1], pass.before[1], pass.before[4] >>

\* C28: postProcessRow leaves a pixel as follows.  Transparency not
\* processed: A = 1 and R, G, B clamped to [0,1].  Otherwise, incoming
\* A <= 0: all four samples 0.  Otherwise: R, G, B divided by the unclamped A
\* and then clamped, A clamped.  In every case the four samples are in [0,1].
C28_PostProcessedPixel ==
  pass.kind = "postprocessed"
    => /\ \A i \in 0..3 : 0 <= img[i] /\ img[i] <= FPOne
       /\ IF ~fp.mustProcessTransparency
          THEN /\ img[3] = FPOne
               /\ \A k \in 1..3 : img[k - 1] = Clamp01(PostGiven[k])
          ELSE IF PostGiven[4] <= 0
          THEN \A i \in 0..3 : img[i] = 0
          ELSE /\ img[3] = Clamp01(PostGiven[4])
               /\ \A k \in 1..3 :
                     img[k - 1] = Clamp01(IF PostGiven[4] # FPOne
                                          THEN DivF(PostGiven[k], PostGiven[4])
                                          ELSE PostGiven[k])
\* A pixel with alpha above 1 whose red sample, divided first, differs from
\* what clamping first would have given.
C28_Witness ==
  /\ pass.kind = "postprocessed"
  /\ fp.mustProcessTransparency
  /\ pass.before[4] > FPOne
  /\ pass.before[1] > 0
  /\ img[0] # Clamp01(pass.before[1])
  /\ img[0] < FPOne
  /\ img[3] = FPOne
\* A pixel with negative alpha has become transparent black.
C28_WitnessNegativeAlpha ==
  /\ pass.kind = "postprocessed"
  /\ fp.mustProcessTransparency
  /\ pass.before[4] < 0
  /\ \E k \in 1..3 : pass.before[k] # 0
  /\ \A i \in 0..3 : img[i] = 0
\* A pixel of an opaque image with a sample above 1.
C28_WitnessOpaque ==
  /\ pass.kind = "postprocessed"
  /\ ~fp.mustProcessTransparency
  /\ \E k \in 1..3 : pass.before[k] > FPOne

\* ------------------------------------------- virtual pixels in the passes
\* The resampling passes of three calls on the 2x2 Gray source, through every
\* interleaving of the workers: a 3x3 target in mode None, whose windows
\* reach past the source's edge; the 2x3 canvas of AdvancedTargets, whose
\* height pass has virtual samples at both ends; and the canvas of
\* VirtualTargets, whose two left columns lie outside of the image.
VirtualCases ==
  { PoolCase(3, FALSE, Rect(-1, -1, 2, 2), "FP", 0, 1, FALSE),
    PoolCase(3, TRUE, Rect(0, 0, 2, 3), "FP", 0, 1, FALSE),
    PoolCase(3, TRUE, Rect(0, 0, 4, 2), "FP", 0, 1, FALSE) }
VirtualInit == PoolInitOf(VirtualCases) /\ pass.kind \in Resamples
VirtualNext ==
  \/ \E w \in Workers : Receive(w)
  \/ \E w \in Workers : ReceiveStop(w)
  \/ \E w \in Workers : ReadSample(w)
  \/ \E w \in Workers : WriteSample(w)
VirtualSpec == VirtualInit /\ [][VirtualNext]_vars

\* Ns and Nc of the pass: the source's and the canvas's extent along it.
PassNs == IF pass.kind = "resizeHeight" THEN pass.f.srcH ELSE pass.f.srcW
PassNc == IF pass.kind = "resizeHeight" THEN pass.f.dstCanvasH ELSE pass.f.dstCanvasW
\* The entries of a weight list that stand for virtual samples, and the
\* out-of-range samples createWeightList got a non-zero filter value for.
VirtualEntries(l) == { i \in 1..Len(l) : l[i].srcSamIdx = -1 }
VirtualSamples(t) ==
  { c \in (1..Len(t.calls)) \X (1..4 * PassNs + 8) :
      /\ c[2] <= Len(t.calls[c[1]].calls)
      /\ t.calls[c[1]].calls[c[2]].isVirtual
      /\ t.calls[c[1]].calls[c[2]].num # 0 }
\* The samples of the destination image the entries of item k apply to, and
\* those of all items.
AppliedBy(k) ==
  { WeightDstIdx(pass.wc, pass.items[k], i) :
      i \in { n \in 1..Len(pass.wc.weightList) : WeightIsReal(pass.wc, n) } }
AppliedSamples == UNION { AppliedBy(k) : k \in 1..Len(pass.items) }

C29_WitnessNone ==
  /\ returned
  /\ pass.f.virtualPixels = VirtualPixelsNone
  /\ createWeightListCalls(pass.f, pass.kind = "resizeHeight").calls[1].window[1] < 0
  /\ pass.wc.weightList # << >>

\* ------------------------------------------- the weight list's allocation
\* The entries createWeightList appended for destination sample d (1-based)
\* of the list just made, and the samples of its window.
AppendedFor(d) ==
  Cardinality({ k \in 1..Len(pass.calls[d].calls) : pass.calls[d].calls[k].num # 0 })
WindowOf(d) == pass.calls[d].window[2] - pass.calls[d].window[1] + 1

\* C30: the weight list never overflows its allocation.  For every source
\* and canvas extent, offset, blur, filter and virtual-pixel mode,
\* createWeightList appends at most lastSrcSamIdx - firstSrcSamIdx + 1
\* entries per destination sample, and the entries appended in all never
\* exceed weightListCap, so no entry is written past the end of the slice.
C30_WeightListFits ==
  pass.kind = "weights"
    => /\ ~pass.panic
       /\ pass.weightsUsed <= pass.cap
       /\ Len(pass.weightList) = pass.weightsUsed
       /\ \A d \in 1..Len(pass.calls) : AppendedFor(d) <= WindowOf(d)
\* A list in mode Transparent in which every sample of every window got an
\* entry, so that it is as long as the windows allow, and which fills its
\* allocation but for the slack.
C30_Witness ==
  /\ pass.kind = "weights"
  /\ fp.virtualPixels = VirtualPixelsTransparent
  /\ \A d \in 1..Len(pass.calls) : AppendedFor(d) = WindowOf(d)
  /\ Len(pass.calls) >= 3
  /\ pass.cap - pass.weightsUsed <= 1
====
